---- MODULE Spec2Model ----
(***************************************************************************)
(* A model of pynektools.comm.router.Router: the rank-to-rank data         *)
(* redistribution layer on top of an MPI communicator.                     *)
(*                                                                         *)
(* Every process of the communicator runs the same Router code.  A call    *)
(* is cut into steps at the points where the code can block on its peers   *)
(* (collectives, each send wait, each receive wait); the code between two  *)
(* such points is one atomic step of the calling process, and the return   *)
(* after the receive loop is a step of its own.  The communicator itself   *)
(* (message matching, collectives) is the environment.                     *)
(***************************************************************************)
EXTENDS Integers, Sequences, FiniteSets, TLC

\* Number of processes of the communicator (comm.Get_size()).
NProc == 2
\* The destination lists passed to send_recv in one round hold at most this
\* many entries together.
MaxSends == 2
\* Largest number of elements of one array passed to send_recv.
MaxSize == 1
\* Largest number of elements of one array passed to gather_in_root, and
\* largest entry of a count table passed to scatter_from_root.
MaxLen == 2

Procs == 0..(NProc - 1)

VARIABLES
    keyword,            \* keyword[p]: the pattern p asks route_data for
    destination,        \* destination[p]: send_recv's destination list
    data,               \* data[p]: the data argument (a list of arrays or one array)
    tag,                \* tag[p]: send_recv's tag
    root,               \* root[p]: the root argument of gather and scatter
    sendcounts,         \* sendcounts[p]: scatter's argument / gather's local variable
    buffered,           \* TRUE: the communicator buffers sends (eager); FALSE: rendezvous
    pc,                 \* pc[p]: where p is in its call
    outcome,            \* outcome[p]: "none", "returned" or the exception raised
    ret,                \* ret[p]: the value the call returned
    destination_count,  \* Router.destination_count of p
    source_count,       \* Router.source_count of p
    collq,              \* collq[p]: the collectives p has entered so far, in order
    colldone,           \* colldone[p]: the number of collectives p has completed
    sources,            \* local variable sources of send_recv
    recvbuff,           \* local variable recvbuff of send_recv
    recvreq,            \* local variable recvreq: one request per posted Irecv
    sendidx,            \* position of send_recv's send loop in destination
    recvidx,            \* recvidx[p]: the requests the receive loop has waited for
    sendreq,            \* state of the Isend request of the send loop
    recvbuf,            \* local variable recvbuf of gather_in_root / scatter_from_root
    chan,               \* chan[s][d]: messages sent by s to d and not yet matched
    arg_data,           \* the data argument of p's first call, as the caller passed it
    arg_sendcounts,     \* the sendcounts argument of p's first call, as passed
    round,              \* round[p]: the number of the call p's caller is at
    prev,               \* prev[p]: the earlier calls of p's caller and what they returned
    events,             \* events[p]: <<name, peer>> of the Irecv, Isend, wait of p's call
    wrote,              \* wrote[p]: the objects p's calls have written or let MPI write
    retobj              \* retobj[p]: the objects p's call has returned

vars == <<keyword, destination, data, tag, root, sendcounts, buffered, pc,
          outcome, ret, destination_count, source_count, collq, colldone,
          sources, recvbuff, recvreq, sendidx, recvidx, sendreq, recvbuf, chan,
          arg_data, arg_sendcounts, round, prev, events, wrote, retobj>>

-----------------------------------------------------------------------------
(* Arrays.  A numpy array is a sequence of rows, each row a sequence of      *)
(* elements; a flat (1-D) buffer is a sequence of elements.                  *)

\* Python's None where an array is expected (no buffer of the model holds -1).
NoneVal == <<-1>>

RECURSIVE SumSeq(_)
SumSeq(s) == IF s = <<>> THEN 0 ELSE Head(s) + SumSeq(Tail(s))

\* ndarray.size: the number of elements of the array.
Size(a) == SumSeq([i \in 1..Len(a) |-> Len(a[i])])

\* ndarray.flatten(): the elements in row-major order.
RECURSIVE Flatten(_)
Flatten(a) == IF a = <<>> THEN <<>> ELSE Head(a) \o Flatten(Tail(a))

\* np.zeros(n)
Zeros(n) == [k \in 1..n |-> 0]

\* np.zeros(comm.Get_size()) indexed by rank
ZeroCounts == [r \in Procs |-> 0]

\* The array a caller builds: rows x cols, its elements naming the call n of
\* the owner p, the position j of the array in the data list and the
\* element's place.
Elem(n, p, j, k) == 1000 * n + 100 * (p + 1) + 10 * j + k
MkArray(n, p, j, rows, cols) ==
    [r \in 1..rows |-> [c \in 1..cols |-> Elem(n, p, j, (r - 1) * cols + c)]]

-----------------------------------------------------------------------------
(* The communicator: collectives.  The k-th collective a process enters     *)
(* is matched with the k-th collective of every other process.              *)

\* Mutant of CollEnter: the contribution of p stands for the contribution of
\* every process (the collective does not wait for the peers).
CollEnterAlone(p, op, rt, buf) ==
    [q \in Procs |-> Append(collq[q], [op |-> op, root |-> rt, buf |-> buf])]

\* p enters a collective: its contribution is handed to the communicator.
CollEnter(p, op, rt, buf) ==
    [collq EXCEPT ![p] = Append(@, [op |-> op, root |-> rt, buf |-> buf])]

\* q has entered its k-th collective and it is the operation c.
Joined(q, k, c) ==
    /\ Len(collq[q]) >= k
    /\ collq[q][k].op = c.op
    /\ collq[q][k].root = c.root

\* The collective p is blocked in can complete at p.  Alltoall and allgather
\* need every process's contribution.  Gatherv needs them all at the root;
\* Scatterv needs the root's at every other process.  The sending side of
\* Gatherv / Scatterv completes at once when the communicator buffers, and
\* only when its receivers have joined when it does not.
CollReady(p) ==
    LET k == colldone[p] + 1
        c == collq[p][k]
    IN  /\ Len(collq[p]) >= k
        /\ CASE c.op \in {"Alltoall", "allgather"} ->
                    \A q \in Procs : Joined(q, k, c)
             [] c.op = "Gatherv" ->
                    IF p = c.root
                    THEN \A q \in Procs : Joined(q, k, c)
                    ELSE buffered \/ Joined(c.root, k, c)
             [] c.op = "Scatterv" ->
                    IF p = c.root
                    THEN buffered \/ \A q \in Procs : Joined(q, k, c)
                    ELSE Joined(c.root, k, c)
             [] OTHER -> FALSE

\* Mutant of AlltoallResult: the counts received are added to the counts of
\* the collective before.
AlltoallResultAccum(p) ==
    [s \in Procs |-> collq[s][colldone[p] + 1].buf[p]
                     + (IF colldone[p] > 0 THEN collq[s][colldone[p]].buf[p] ELSE 0)]

\* Mutant of AlltoallResult: p receives its own sendbuf (no exchange).
AlltoallResultOwn(p) ==
    [s \in Procs |-> collq[p][colldone[p] + 1].buf[s]]

\* comm.Alltoall(sendbuf, recvbuf): p receives entry p of every rank's sendbuf.
AlltoallResult(p) ==
    [s \in Procs |-> collq[s][colldone[p] + 1].buf[p]]

-----------------------------------------------------------------------------
(* Router.send_recv                                                          *)

\* Mutant of FillFromList: the sizes of the entries for one rank are summed.
RECURSIVE FillFromListSum(_, _, _, _)
FillFromListSum(cnt, dest, lst, i) ==
    IF i > Len(dest) THEN cnt
    ELSE FillFromListSum([cnt EXCEPT ![dest[i]] = @ + Size(lst[i])], dest, lst, i + 1)

\* for dest_ind, dest in enumerate(destination):
\*     destination_count[dest] = data[dest_ind].size
RECURSIVE FillFromList(_, _, _, _)
FillFromList(cnt, dest, lst, i) ==
    IF i > Len(dest) THEN cnt
    ELSE FillFromList([cnt EXCEPT ![dest[i]] = Size(lst[i])], dest, lst, i + 1)

\* destination_count[destination] = data.size
FillFromArray(cnt, dest, arr) ==
    [r \in Procs |-> IF \E i \in 1..Len(dest) : dest[i] = r THEN Size(arr) ELSE cnt[r]]

\* "Fill the destination count": destination_count after lines 139-147.
FillDestinationCount(dest, d) ==
    IF d.isList THEN FillFromList(ZeroCounts, dest, d.list, 1)
    ELSE FillFromArray(ZeroCounts, dest, d.arr)

\* The position of the first entry of dest that indexes destination_count
\* out of bounds (a rank >= P), 0 when there is none.
FirstBadRank(dest) ==
    IF \E i \in 1..Len(dest) : dest[i] >= NProc
    THEN CHOOSE i \in 1..Len(dest) :
            dest[i] >= NProc /\ \A j \in 1..(i - 1) : dest[j] < NProc
    ELSE 0

\* destination_count when the fill raises IndexError: the loop over a list
\* has filled the entries before the failing one; the indexed assignment of
\* the array branch checks its indices before it assigns.
FillUntilRaise(dest, d) ==
    IF d.isList
    THEN FillFromList(ZeroCounts, SubSeq(dest, 1, FirstBadRank(dest) - 1), d.list, 1)
    ELSE ZeroCounts

\* Mutant of WhereNonZero: the ranks with a nonzero count, highest first.
RECURSIVE WhereNonZeroDescending(_, _)
WhereNonZeroDescending(cnt, r) ==
    IF r >= NProc THEN <<>>
    ELSE WhereNonZeroDescending(cnt, r + 1) \o (IF cnt[r] # 0 THEN <<r>> ELSE <<>>)

\* Mutant of WhereNonZero: every rank, whatever its count.
RECURSIVE WhereEveryRank(_, _)
WhereEveryRank(cnt, r) == IF r >= NProc THEN <<>> ELSE <<r>> \o WhereEveryRank(cnt, r + 1)

\* np.where(source_count != 0)[0]: the ranks with a nonzero count, ascending.
RECURSIVE WhereNonZero(_, _)
WhereNonZero(cnt, r) ==
    IF r >= NProc THEN <<>>
    ELSE (IF cnt[r] # 0 THEN <<r>> ELSE <<>>) \o WhereNonZero(cnt, r + 1)

\* Mutant of AllocRecvBuff: a buffer for every rank, not only for the sources.
AllocRecvBuffEveryRank(cnt, srcs) == [i \in 1..NProc |-> Zeros(cnt[i - 1])]

\* recvbuff = [np.zeros(source_count[source]) for source in sources]
AllocRecvBuff(cnt, srcs) == [i \in 1..Len(srcs) |-> Zeros(cnt[srcs[i]])]

\* recvreq = [comm.Irecv(recvbuff[i], source=source, tag=tag) ...]
PostRecvs(srcs, t) ==
    [i \in 1..Len(srcs) |-> [source |-> srcs[i], tag |-> t, state |-> "posted", by |-> 0]]

\* The payload of the i-th send of the send loop: data[i].flatten() or data.flatten()
SendPayload(d, i) == IF d.isList THEN Flatten(d.list[i]) ELSE Flatten(d.arr)

\* Mutant of SendRecvEnter: destination_count is not zeroed before the fill.
SendRecvEnterKeep(p) ==
    LET dc == IF data[p].isList
              THEN FillFromList(destination_count[p], destination[p], data[p].list, 1)
              ELSE FillFromArray(destination_count[p], destination[p], data[p].arr)
    IN  /\ destination_count' = [destination_count EXCEPT ![p] = dc]
        /\ source_count' = [source_count EXCEPT ![p] = ZeroCounts]
        /\ collq' = CollEnter(p, "Alltoall", 0, dc)
        /\ pc' = [pc EXCEPT ![p] = "alltoall"]
        /\ wrote' = [wrote EXCEPT ![p] = @ \cup {"self.destination_count", "self.source_count"}]
        /\ UNCHANGED <<round, prev, events, retobj, arg_data, arg_sendcounts, keyword, destination,
                       data, tag, root, sendcounts, buffered, outcome, ret, colldone,
                       sources, recvbuff, recvreq, sendidx, recvidx, sendreq, recvbuf, chan>>

\* Mutant of SendRecvEnter: a call with an empty destination list returns
\* at once, without the count exchange.
SendRecvEnterSkipEmpty(p) ==
    IF destination[p] # <<>>
    THEN LET dc == FillDestinationCount(destination[p], data[p])
         IN  /\ destination_count' = [destination_count EXCEPT ![p] = dc]
             /\ source_count' = [source_count EXCEPT ![p] = ZeroCounts]
             /\ collq' = CollEnter(p, "Alltoall", 0, dc)
             /\ pc' = [pc EXCEPT ![p] = "alltoall"]
             /\ wrote' = [wrote EXCEPT ![p] =
                             @ \cup {"self.destination_count", "self.source_count"}]
             /\ UNCHANGED <<round, prev, events, retobj, arg_data, arg_sendcounts,
                            keyword, destination, data, tag, root, sendcounts,
                            buffered, outcome, ret, colldone, sources, recvbuff,
                            recvreq, sendidx, recvidx, sendreq, recvbuf, chan>>
    ELSE /\ outcome' = [outcome EXCEPT ![p] = "returned"]
         /\ ret' = [ret EXCEPT ![p] = <<<<>>, <<>>>>]
         /\ pc' = [pc EXCEPT ![p] = "done"]
         /\ UNCHANGED <<round, prev, events, wrote, retobj, arg_data, arg_sendcounts,
                        keyword, destination, data, tag, root, sendcounts, buffered,
                        destination_count, source_count, collq, colldone, sources,
                        recvbuff, recvreq, sendidx, recvidx, sendreq, recvbuf, chan>>

\* Mutant of SendRecvEnter: an out-of-bounds destination rank ends the fill
\* without an error and the call goes on to the count exchange.
SendRecvEnterUnchecked(p) ==
    LET dc == IF FirstBadRank(destination[p]) = 0
              THEN FillDestinationCount(destination[p], data[p])
              ELSE FillUntilRaise(destination[p], data[p])
    IN  /\ destination_count' = [destination_count EXCEPT ![p] = dc]
        /\ source_count' = [source_count EXCEPT ![p] = ZeroCounts]
        /\ collq' = CollEnter(p, "Alltoall", 0, dc)
        /\ pc' = [pc EXCEPT ![p] = "alltoall"]
        /\ wrote' = [wrote EXCEPT ![p] = @ \cup {"self.destination_count", "self.source_count"}]
        /\ UNCHANGED <<round, prev, events, retobj, arg_data, arg_sendcounts,
                       keyword, destination, data, tag, root, sendcounts, buffered,
                       outcome, ret, colldone, sources, recvbuff, recvreq,
                       sendidx, recvidx, sendreq, recvbuf, chan>>

\* send_recv up to its first blocking point: fill destination_count, zero
\* source_count and enter Alltoall.  A destination rank >= P raises
\* IndexError in the fill, before source_count is zeroed and Alltoall entered.
SendRecvEnter(p) ==
    IF FirstBadRank(destination[p]) = 0
    THEN LET dc == FillDestinationCount(destination[p], data[p])
         IN  /\ destination_count' = [destination_count EXCEPT ![p] = dc]
             /\ source_count' = [source_count EXCEPT ![p] = ZeroCounts]
             /\ collq' = CollEnter(p, "Alltoall", 0, dc)
             /\ pc' = [pc EXCEPT ![p] = "alltoall"]
             /\ wrote' = [wrote EXCEPT ![p] =
                             @ \cup {"self.destination_count", "self.source_count"}]
             /\ UNCHANGED <<round, prev, events, retobj, arg_data, arg_sendcounts,
                            keyword, destination, data, tag, root, sendcounts,
                            buffered, outcome, ret, colldone, sources, recvbuff,
                            recvreq, sendidx, recvidx, sendreq, recvbuf, chan>>
    ELSE /\ destination_count' = [destination_count EXCEPT ![p] =
                                     FillUntilRaise(destination[p], data[p])]
         /\ outcome' = [outcome EXCEPT ![p] = "IndexError"]
         /\ pc' = [pc EXCEPT ![p] = "done"]
         /\ wrote' = [wrote EXCEPT ![p] = @ \cup {"self.destination_count"}]
         /\ UNCHANGED <<round, prev, events, retobj, arg_data, arg_sendcounts,
                        keyword, destination, data, tag, root, sendcounts,
                        buffered, ret, source_count, collq, colldone, sources,
                        recvbuff, recvreq, sendidx, recvidx, sendreq, recvbuf, chan>>

\* The send loop reaches position i of destination, log being the calls p
\* has made up to there: either
\* sendreq = comm.Isend(payload, dest=dest, tag=tag) is issued and the process
\* waits for it (a buffered send is complete at once, a rendezvous send when
\* it is matched), or the loop is over and the process is at the head of the
\* receive loop, having waited for none of its requests.
SendLoop(p, i, log) ==
    IF i <= Len(destination[p])
    THEN /\ chan' = [chan EXCEPT ![p][destination[p][i]] =
                        Append(@, [tag |-> tag[p], payload |-> SendPayload(data[p], i),
                                   call |-> round[p]])]
         /\ sendreq' = [sendreq EXCEPT ![p] = IF buffered THEN "complete" ELSE "pending"]
         /\ sendidx' = [sendidx EXCEPT ![p] = i]
         /\ recvidx' = [recvidx EXCEPT ![p] = 0]
         /\ pc' = [pc EXCEPT ![p] = "sendwait"]
         /\ events' = [events EXCEPT ![p] =
                          Append(log, <<"Isend", destination[p][i]>>)]
    ELSE /\ sendreq' = [sendreq EXCEPT ![p] = "none"]
         /\ sendidx' = [sendidx EXCEPT ![p] = i]
         /\ recvidx' = [recvidx EXCEPT ![p] = 0]
         /\ pc' = [pc EXCEPT ![p] = "recvwait"]
         /\ events' = [events EXCEPT ![p] = log]
         /\ UNCHANGED chan

\* The Irecv calls of p for the sources srcs, in the order they are made.
RecvEvents(p, srcs) ==
    [i \in 1..Len(srcs) |-> <<"Irecv", srcs[i]>>]

\* Mutant of AlltoallExit: the receives are not posted before the send loop.
AlltoallExitNoRecvs(p) ==
    /\ pc[p] = "alltoall"
    /\ CollReady(p)
    /\ LET sc == AlltoallResult(p)
           srcs == WhereNonZero(sc, 0)
       IN  /\ source_count' = [source_count EXCEPT ![p] = sc]
           /\ sources' = [sources EXCEPT ![p] = srcs]
           /\ recvbuff' = [recvbuff EXCEPT ![p] = AllocRecvBuff(sc, srcs)]
           /\ recvreq' = [recvreq EXCEPT ![p] = <<>>]
    /\ colldone' = [colldone EXCEPT ![p] = @ + 1]
    /\ wrote' = [wrote EXCEPT ![p] = @ \cup {"self.source_count"}]
    /\ SendLoop(p, 1, events[p])
    /\ UNCHANGED <<round, prev, retobj, arg_data, arg_sendcounts, keyword, destination,
                   data, tag, root, sendcounts, buffered, outcome, ret,
                   destination_count, collq, recvbuf>>

\* Alltoall completes at p: source_count is filled, sources computed, the
\* receive buffers allocated, one Irecv posted per source, and the send loop
\* entered.
AlltoallExit(p) ==
    /\ pc[p] = "alltoall"
    /\ CollReady(p)
    /\ LET sc == AlltoallResult(p)
           srcs == WhereNonZero(sc, 0)
       IN  /\ source_count' = [source_count EXCEPT ![p] = sc]
           /\ sources' = [sources EXCEPT ![p] = srcs]
           /\ recvbuff' = [recvbuff EXCEPT ![p] = AllocRecvBuff(sc, srcs)]
           /\ recvreq' = [recvreq EXCEPT ![p] = PostRecvs(srcs, tag[p])]
    /\ colldone' = [colldone EXCEPT ![p] = @ + 1]
    /\ wrote' = [wrote EXCEPT ![p] = @ \cup {"self.source_count"}]
    /\ SendLoop(p, 1, events[p] \o RecvEvents(p, WhereNonZero(AlltoallResult(p), 0)))
    /\ UNCHANGED <<round, prev, retobj, arg_data, arg_sendcounts,
                   keyword, destination, data, tag, root, sendcounts, buffered,
                   outcome, ret, destination_count, collq, recvbuf>>

\* Mutant of SendWait: the send loop issues the next send without waiting
\* for the one before.
SendWaitNoWait(p) ==
    /\ pc[p] = "sendwait"
    /\ SendLoop(p, sendidx[p] + 1, events[p])
    /\ UNCHANGED <<round, prev, wrote, retobj, arg_data, arg_sendcounts, keyword,
                   destination, data, tag, root, sendcounts, buffered,
                   outcome, ret, destination_count, source_count, collq, colldone,
                   sources, recvbuff, recvreq, recvbuf>>

\* sendreq.wait() returns: the send loop moves to the next destination.
SendWait(p) ==
    /\ pc[p] = "sendwait"
    /\ sendreq[p] = "complete"
    /\ SendLoop(p, sendidx[p] + 1,
                Append(events[p], <<"wait", destination[p][sendidx[p]]>>))
    /\ UNCHANGED <<round, prev, wrote, retobj, arg_data, arg_sendcounts,
                   keyword, destination, data, tag, root, sendcounts, buffered,
                   outcome, ret, destination_count, source_count, collq, colldone,
                   sources, recvbuff, recvreq, recvbuf>>

\* Mutant of WaitedFor: the receive loop does not wait for its requests.
WaitedForNothing(reqs, n) == TRUE

\* req.wait() on request number n comes back: the request has been matched
\* (with a message that fits its buffer, or with one that does not).
WaitedFor(reqs, n) == reqs[n].state \in {"complete", "truncated"}

\* The objects send_recv returns: the array of sources, the list recvbuff
\* and the np.zeros arrays in it, one per source.
ReturnedBySendRecv(srcs) ==
    {"np.where", "list"} \cup (IF srcs # <<>> THEN {"np.zeros"} ELSE {})

\* One pass of "for req in recvreq: req.wait()": the wait for the next
\* request comes back (and raises if the message was longer than the
\* buffer), or the loop is over and send_recv returns (sources, recvbuff).
RecvWait(p) ==
    /\ pc[p] = "recvwait"
    /\ LET n == recvidx[p] + 1
       IN  IF n <= Len(recvreq[p])
           THEN /\ WaitedFor(recvreq[p], n)
                /\ IF recvreq[p][n].state = "truncated"
                   THEN /\ outcome' = [outcome EXCEPT ![p] = "MPI.Exception"]
                        /\ pc' = [pc EXCEPT ![p] = "done"]
                        /\ UNCHANGED <<recvidx, events>>
                   ELSE /\ recvidx' = [recvidx EXCEPT ![p] = n]
                        /\ events' = [events EXCEPT ![p] =
                                         Append(@, <<"wait", recvreq[p][n].source>>)]
                        /\ UNCHANGED <<outcome, pc>>
                /\ UNCHANGED <<ret, retobj>>
           ELSE /\ outcome' = [outcome EXCEPT ![p] = "returned"]
                /\ ret' = [ret EXCEPT ![p] = <<sources[p], recvbuff[p]>>]
                /\ retobj' = [retobj EXCEPT ![p] = ReturnedBySendRecv(sources[p])]
                /\ pc' = [pc EXCEPT ![p] = "done"]
                /\ UNCHANGED <<recvidx, events>>
    /\ UNCHANGED <<round, prev, wrote, arg_data, arg_sendcounts,
                   keyword, destination, data, tag, root, sendcounts, buffered,
                   destination_count, source_count, collq, colldone,
                   sources, recvbuff, recvreq, sendidx, sendreq, recvbuf, chan>>

-----------------------------------------------------------------------------
(* The communicator: point-to-point matching.  Messages of one sender to     *)
(* one receiver with one tag are matched in the order they were sent, with   *)
(* the receives for that sender and tag in the order they were posted.       *)

\* buf with the message written at its start (a shorter message leaves the
\* rest of the buffer as it was).
Received(buf, payload) ==
    [k \in 1..Len(buf) |-> IF k <= Len(payload) THEN payload[k] ELSE buf[k]]

RemoveAt(s, i) == [k \in 1..(Len(s) - 1) |-> IF k < i THEN s[k] ELSE s[k + 1]]

\* Mutant of FirstWithTag: messages overtake each other.
AnyWithTag(q, i) == TRUE

\* The message at position i of the queue q is the oldest with its tag
\* (messages of one sender to one receiver do not overtake each other).
FirstWithTag(q, i) == \A i2 \in 1..(i - 1) : q[i2].tag # q[i].tag

\* The message at position i of chan[s][d] is delivered into the posted
\* receive j of d.
Deliver(s, d, i, j) ==
    LET m == chan[s][d][i]
        r == recvreq[d][j]
    IN  /\ r.state = "posted"
        /\ r.source = s
        /\ r.tag = m.tag
        /\ FirstWithTag(chan[s][d], i)
        /\ \A j2 \in 1..(j - 1) :
              ~(recvreq[d][j2].state = "posted" /\ recvreq[d][j2].source = s
                /\ recvreq[d][j2].tag = m.tag)
        /\ IF Len(m.payload) > Len(recvbuff[d][j])
           THEN /\ recvreq' = [recvreq EXCEPT ![d][j].state = "truncated",
                                                ![d][j].by = m.call]
                /\ UNCHANGED recvbuff
           ELSE /\ recvreq' = [recvreq EXCEPT ![d][j].state = "complete",
                                                ![d][j].by = m.call]
                /\ recvbuff' = [recvbuff EXCEPT ![d][j] = Received(@, m.payload)]
        /\ wrote' = [wrote EXCEPT ![d] = @ \cup {"np.zeros"}]
        /\ chan' = [chan EXCEPT ![s][d] = RemoveAt(@, i)]
        /\ sendreq' = IF sendreq[s] = "pending"
                      THEN [sendreq EXCEPT ![s] = "complete"] ELSE sendreq
        /\ UNCHANGED <<round, prev, events, retobj, arg_data, arg_sendcounts,
                       keyword, destination, data, tag, root, sendcounts, buffered,
                       pc, outcome, ret, destination_count, source_count, collq,
                       colldone, sources, sendidx, recvidx, recvbuf>>

-----------------------------------------------------------------------------
(* Router.gather_in_root                                                     *)

\* Mutant of Offset: the sum of the counts up to and including rank r.
RECURSIVE OffsetInclusive(_, _)
OffsetInclusive(cnt, r) ==
    IF r < 0 THEN 0
    ELSE OffsetInclusive(cnt, r - 1) + (IF r < NProc THEN cnt[r] ELSE 0)

\* The offset of rank r in a buffer laid out by the count table cnt: the sum
\* of the counts of the ranks below r (Gatherv / Scatterv displacements).
RECURSIVE Offset(_, _)
Offset(cnt, r) == IF r <= 0 THEN 0 ELSE Offset(cnt, r - 1) + cnt[r - 1]

\* sum(sendcounts)
Total(cnt) == Offset(cnt, NProc)

\* np.empty(n): n elements of no defined value, every one written by Gatherv.
Empty(n) == [k \in 1..n |-> -999]

\* The rank whose block of the count table cnt holds position i (1-based).
RankAt(cnt, i) == CHOOSE r \in Procs : Offset(cnt, r) < i /\ i <= Offset(cnt, r) + cnt[r]

\* Mutant of AllgatherResult: the sizes are collected at the root only (a
\* gather instead of an allgather).
AllgatherResultRootOnly(p) ==
    [q \in Procs |-> IF p = root[p] THEN collq[q][colldone[p] + 1].buf ELSE 0]

\* comm.allgather(data.size): the sizes of every rank, by rank.
AllgatherResult(p) == [q \in Procs |-> collq[q][colldone[p] + 1].buf]

\* Mutant of GathervResult: the root's own buffer is not copied into recvbuf.
GathervResultSkipRoot(p) ==
    LET cnt == sendcounts[p]
    IN  [i \in 1..Len(recvbuf[p]) |->
            IF \E r \in Procs \ {p} : Offset(cnt, r) < i /\ i <= Offset(cnt, r) + cnt[r]
            THEN LET r == RankAt(cnt, i)
                 IN  collq[r][colldone[p] + 1].buf[i - Offset(cnt, r)]
            ELSE recvbuf[p][i]]

\* comm.Gatherv(sendbuf=data, recvbuf=(recvbuf, sendcounts), root): at the
\* root, rank r's buffer is written at the offset of r in sendcounts.
GathervResult(p) ==
    LET cnt == sendcounts[p]
    IN  [i \in 1..Len(recvbuf[p]) |->
            IF \E r \in Procs : Offset(cnt, r) < i /\ i <= Offset(cnt, r) + cnt[r]
            THEN LET r == RankAt(cnt, i)
                     sent == collq[r][colldone[p] + 1].buf
                 IN  IF i - Offset(cnt, r) <= Len(sent)
                     THEN sent[i - Offset(cnt, r)] ELSE recvbuf[p][i]
            ELSE recvbuf[p][i]]

\* Mutant of GatherEnter: the sizes are collected in the Router's
\* source_count, zeroed first.
GatherEnterScratch(p) ==
    /\ collq' = CollEnter(p, "allgather", 0, Size(data[p].arr))
    /\ source_count' = [source_count EXCEPT ![p] = ZeroCounts]
    /\ pc' = [pc EXCEPT ![p] = "allgather"]
    /\ UNCHANGED <<round, prev, events, wrote, retobj, arg_data, arg_sendcounts,
                   keyword, destination, data, tag, root, sendcounts, buffered,
                   outcome, ret, destination_count, colldone,
                   sources, recvbuff, recvreq, sendidx, recvidx, sendreq, recvbuf, chan>>

\* gather_in_root up to its first blocking point: enter allgather with data.size.
GatherEnter(p) ==
    /\ collq' = CollEnter(p, "allgather", 0, Size(data[p].arr))
    /\ pc' = [pc EXCEPT ![p] = "allgather"]
    /\ UNCHANGED <<round, prev, events, wrote, retobj, arg_data, arg_sendcounts,
                   keyword, destination, data, tag, root, sendcounts, buffered,
                   outcome, ret, destination_count, source_count, colldone,
                   sources, recvbuff, recvreq, sendidx, recvidx, sendreq, recvbuf, chan>>

\* allgather completes at p: sendcounts is known, the root allocates
\* recvbuf, and p enters Gatherv with its data.
AllgatherExit(p) ==
    /\ pc[p] = "allgather"
    /\ CollReady(p)
    /\ LET cnt == AllgatherResult(p)
       IN  /\ sendcounts' = [sendcounts EXCEPT ![p] = cnt]
           /\ recvbuf' = [recvbuf EXCEPT ![p] =
                            IF p = root[p] THEN Empty(Total(cnt)) ELSE NoneVal]
    /\ colldone' = [colldone EXCEPT ![p] = @ + 1]
    /\ collq' = CollEnter(p, "Gatherv", root[p], Flatten(data[p].arr))
    /\ pc' = [pc EXCEPT ![p] = "gatherv"]
    /\ UNCHANGED <<round, prev, events, wrote, retobj, arg_data, arg_sendcounts,
                   keyword, destination, data, tag, root, buffered, outcome, ret,
                   destination_count, source_count, sources, recvbuff, recvreq,
                   sendidx, recvidx, sendreq, chan>>

\* Gatherv completes at p: return (recvbuf, sendcounts).
GathervExit(p) ==
    /\ pc[p] = "gatherv"
    /\ CollReady(p)
    /\ LET rb == IF p = root[p] THEN GathervResult(p) ELSE recvbuf[p]
       IN  /\ recvbuf' = [recvbuf EXCEPT ![p] = rb]
           /\ ret' = [ret EXCEPT ![p] = <<rb, sendcounts[p]>>]
    /\ wrote' = [wrote EXCEPT ![p] = @ \cup (IF p = root[p] THEN {"np.empty"} ELSE {})]
    /\ retobj' = [retobj EXCEPT ![p] = {IF p = root[p] THEN "np.empty" ELSE "None", "np.array"}]
    /\ colldone' = [colldone EXCEPT ![p] = @ + 1]
    /\ outcome' = [outcome EXCEPT ![p] = "returned"]
    /\ pc' = [pc EXCEPT ![p] = "done"]
    /\ UNCHANGED <<round, prev, events, arg_data, arg_sendcounts,
                   keyword, destination, data, tag, root, sendcounts, buffered,
                   destination_count, source_count, collq, sources, recvbuff,
                   recvreq, sendidx, recvidx, sendreq, chan>>

-----------------------------------------------------------------------------
(* Router.scatter_from_root                                                  *)

\* sendcounts[:] = data.size // comm.Get_size()
EqualCounts(arr) == [r \in Procs |-> Size(arr) \div NProc]

\* The count table scatter_from_root works with at p: only the root replaces
\* a missing table by the equal division.
ScatterCounts(p) ==
    IF p = root[p] /\ sendcounts[p] = NoneVal THEN EqualCounts(data[p].arr)
    ELSE sendcounts[p]

\* The object scatter_from_root's name sendcounts is bound to at p: the
\* array np.zeros made at the root when the caller passed None, the caller's
\* own object otherwise.
ScatterCountsObject(p) ==
    IF p = root[p] /\ sendcounts[p] = NoneVal THEN "np.zeros" ELSE "sendcounts"

\* Mutant of WrittenByScatterEnter: the root fills the count table whether
\* the caller passed one or not.
WrittenByScatterEnterAlways(p) == IF p = root[p] THEN {ScatterCountsObject(p)} ELSE {}

\* The objects scatter_from_root writes before Scatterv: sendcounts[:] = ...
\* fills the array np.zeros made when the caller passed None.
WrittenByScatterEnter(p) ==
    IF p = root[p] /\ sendcounts[p] = NoneVal THEN {"np.zeros"} ELSE {}

\* np.ones(n) * -100
MinusHundreds(n) == [k \in 1..n |-> -100]

\* scatter_from_root up to its first blocking point.  sendcounts[rank] of a
\* table that is None raises TypeError; otherwise p enters Scatterv.
ScatterEnter(p) ==
    LET sc == ScatterCounts(p)
        sendbuf == IF p = root[p] THEN Flatten(data[p].arr) ELSE NoneVal
    IN  /\ sendcounts' = [sendcounts EXCEPT ![p] = sc]
        /\ wrote' = [wrote EXCEPT ![p] = @ \cup WrittenByScatterEnter(p)]
        /\ IF sc = NoneVal
           THEN /\ outcome' = [outcome EXCEPT ![p] = "TypeError"]
                /\ pc' = [pc EXCEPT ![p] = "done"]
                /\ UNCHANGED <<recvbuf, collq>>
           ELSE /\ recvbuf' = [recvbuf EXCEPT ![p] = MinusHundreds(sc[p])]
                /\ collq' = CollEnter(p, "Scatterv", root[p],
                                      [sendbuf |-> sendbuf, counts |-> sc])
                /\ pc' = [pc EXCEPT ![p] = "scatterv"]
                /\ UNCHANGED outcome
        /\ UNCHANGED <<round, prev, events, retobj, arg_data, arg_sendcounts,
                       keyword, destination, data, tag, root, buffered, ret,
                       destination_count, source_count, colldone, sources,
                       recvbuff, recvreq, sendidx, recvidx, sendreq, chan>>

\* Mutant of ScattervSlice: every rank's slice is taken from the start of the
\* root's send buffer (no displacements).
ScattervSliceNoDispl(p) ==
    LET c == collq[root[p]][colldone[p] + 1].buf
    IN  SubSeq(c.sendbuf, 1, c.counts[p])

\* Mutant of ScattervSlice: a process that is not the root receives the slice
\* of its own data argument.
ScattervSliceOwnData(p) ==
    LET c == collq[root[p]][colldone[p] + 1].buf
        buf == IF p = root[p] THEN c.sendbuf ELSE Flatten(data[p].arr)
        last == Offset(c.counts, p) + c.counts[p]
    IN  SubSeq(buf, Offset(c.counts, p) + 1,
               IF last <= Len(buf) THEN last ELSE Len(buf))

\* What Scatterv sends to p: the slice of the root's send buffer at p's
\* offset in the root's count table (no further than the end of the buffer).
ScattervSlice(p) ==
    LET c == collq[root[p]][colldone[p] + 1].buf
        last == Offset(c.counts, p) + c.counts[p]
    IN  SubSeq(c.sendbuf, Offset(c.counts, p) + 1,
               IF last <= Len(c.sendbuf) THEN last ELSE Len(c.sendbuf))

\* Scatterv completes at p: return recvbuf.  A slice longer than recvbuf
\* is a truncation error.
ScattervExit(p) ==
    /\ pc[p] = "scatterv"
    /\ CollReady(p)
    /\ colldone' = [colldone EXCEPT ![p] = @ + 1]
    /\ pc' = [pc EXCEPT ![p] = "done"]
    /\ IF Len(ScattervSlice(p)) > Len(recvbuf[p])
       THEN /\ outcome' = [outcome EXCEPT ![p] = "MPI.Exception"]
            /\ UNCHANGED <<recvbuf, ret, wrote, retobj>>
       ELSE /\ recvbuf' = [recvbuf EXCEPT ![p] = Received(@, ScattervSlice(p))]
            /\ ret' = [ret EXCEPT ![p] = Received(recvbuf[p], ScattervSlice(p))]
            /\ outcome' = [outcome EXCEPT ![p] = "returned"]
            /\ wrote' = [wrote EXCEPT ![p] = @ \cup {"np.ones"}]
            /\ retobj' = [retobj EXCEPT ![p] = {"np.ones"}]
    /\ UNCHANGED <<round, prev, events, arg_data, arg_sendcounts,
                   keyword, destination, data, tag, root, sendcounts, buffered,
                   destination_count, source_count, collq, sources, recvbuff,
                   recvreq, sendidx, recvidx, sendreq, chan>>

-----------------------------------------------------------------------------
(* Router.route_data                                                         *)

\* The keys of router_factory.
RouterFactory == {"distribute", "gather", "scatter"}

\* What the raise statement of route_data raises: building the message of
\* the ValueError evaluates method_keyword, a name that is not defined.
UnrecognizedError == "NameError"

\* keyword not in router_factory: the call ends in an exception.
RouteRaise(p) ==
    /\ outcome' = [outcome EXCEPT ![p] = UnrecognizedError]
    /\ pc' = [pc EXCEPT ![p] = "done"]
    /\ UNCHANGED <<round, prev, events, wrote, retobj, arg_data, arg_sendcounts,
                   keyword, destination, data, tag, root, sendcounts, buffered,
                   ret, destination_count, source_count, collq, colldone,
                   sources, recvbuff, recvreq, sendidx, recvidx, sendreq, recvbuf, chan>>

\* Mutant of RouteData: a keyword that is no key of router_factory runs
\* send_recv.
RouteDataFallback(p) ==
    /\ pc[p] = "call"
    /\ CASE keyword[p] = "gather" -> GatherEnter(p)
         [] keyword[p] = "scatter" -> ScatterEnter(p)
         [] OTHER -> SendRecvEnter(p)

\* Mutant of RouteData: "gather" and "scatter" name each other's method.
RouteDataSwapped(p) ==
    /\ pc[p] = "call"
    /\ IF keyword[p] \notin RouterFactory THEN RouteRaise(p)
       ELSE CASE keyword[p] = "distribute" -> SendRecvEnter(p)
              [] keyword[p] = "gather" -> ScatterEnter(p)
              [] keyword[p] = "scatter" -> GatherEnter(p)

\* p calls route_data(keyword, **kwargs): the pattern's method runs up to
\* its first blocking point.
RouteData(p) ==
    /\ pc[p] = "call"
    /\ IF keyword[p] \notin RouterFactory THEN RouteRaise(p)
       ELSE CASE keyword[p] = "distribute" -> SendRecvEnter(p)
              [] keyword[p] = "gather" -> GatherEnter(p)
              [] keyword[p] = "scatter" -> ScatterEnter(p)

-----------------------------------------------------------------------------
(* Initial states: a fresh Router on every process (Router.__init__) and    *)
(* the arguments of the call every process is about to make.                *)

\* An argument that is not passed.
NoData == [isList |-> FALSE, list |-> <<>>, arr |-> <<>>]

\* Router.__init__ on every process and an idle communicator.
FreshRouters ==
    /\ buffered \in BOOLEAN
    /\ outcome = [p \in Procs |-> "none"]
    /\ ret = [p \in Procs |-> NoneVal]
    /\ destination_count = [p \in Procs |-> ZeroCounts]
    /\ source_count = [p \in Procs |-> ZeroCounts]
    /\ collq = [p \in Procs |-> <<>>]
    /\ colldone = [p \in Procs |-> 0]
    /\ sources = [p \in Procs |-> <<>>]
    /\ recvbuff = [p \in Procs |-> <<>>]
    /\ recvreq = [p \in Procs |-> <<>>]
    /\ sendidx = [p \in Procs |-> 0]
    /\ recvidx = [p \in Procs |-> 0]
    /\ sendreq = [p \in Procs |-> "none"]
    /\ recvbuf = [p \in Procs |-> NoneVal]
    /\ chan = [s \in Procs |-> [d \in Procs |-> <<>>]]
    /\ round = [p \in Procs |-> 1]
    /\ prev = [p \in Procs |-> <<>>]
    /\ events = [p \in Procs |-> <<>>]
    /\ wrote = [p \in Procs |-> {}]
    /\ retobj = [p \in Procs |-> {}]

\* Fresh routers, and every process about to make its first call.
Fresh ==
    /\ FreshRouters
    /\ pc = [p \in Procs |-> "call"]

\* data as a list, one array of sz[j] elements per destination.
ListData(n, p, dest, sz) ==
    [isList |-> TRUE, arr |-> <<>>,
     list |-> [j \in 1..Len(dest) |-> MkArray(n, p, j, sz[j], 1)]]

\* data as one array of n elements.
ArrayData(n, p, m) == [isList |-> FALSE, list |-> <<>>, arr |-> MkArray(n, p, 0, m, 1)]

\* The (destination, data) arguments p may pass in its call number c with n
\* destinations (ranks of the communicator, repeated or not, itself
\* included): a list of arrays of any sizes, or one array of any size.
DistArgs(c, p, n) ==
    IF n = 0
    THEN {[destination |-> <<>>, data |-> ListData(c, p, <<>>, <<>>)]}
    ELSE {[destination |-> d, data |-> ListData(c, p, d, sz)] :
             d \in [1..n -> Procs], sz \in [1..n -> 0..MaxSize]}
         \cup {[destination |-> d, data |-> ArrayData(c, p, m)] :
                 d \in [1..n -> Procs], m \in 0..MaxSize}

\* The arguments of the first calls of the processes p, p+1, ... (a sequence,
\* rank p first) with at most budget destinations together.
RECURSIVE DistArgsFrom(_, _)
DistArgsFrom(p, budget) ==
    IF p >= NProc THEN {<<>>}
    ELSE UNION {{<<a>> \o rest : a \in DistArgs(1, p, n),
                                 rest \in DistArgsFrom(p + 1, budget - n)} :
                n \in 0..budget}

\* The arguments of route_data("distribute", ...), with the same tag on
\* every process.
DistCall ==
    /\ keyword = [p \in Procs |-> "distribute"]
    /\ tag = [p \in Procs |-> 0]
    /\ root = [p \in Procs |-> 0]
    /\ sendcounts = [p \in Procs |-> NoneVal]
    /\ \E args \in DistArgsFrom(0, MaxSends) :
          /\ destination = [p \in Procs |-> args[p + 1].destination]
          /\ data = [p \in Procs |-> args[p + 1].data]
    /\ arg_data = data
    /\ arg_sendcounts = sendcounts

\* Every process calls route_data("distribute", ...).
InitDist == Fresh /\ DistCall

\* The steps of a distribute round.
DistStep ==
    \/ \E p \in Procs : RouteData(p)
    \/ \E p \in Procs : AlltoallExit(p)
    \/ \E p \in Procs : SendWait(p)
    \/ \E p \in Procs : RecvWait(p)
    \/ \E s \in Procs, d \in Procs :
          \E i \in 1..Len(chan[s][d]), j \in 1..Len(recvreq[d]) : Deliver(s, d, i, j)

SpecDist == InitDist /\ [][DistStep]_vars

\* A distribute round, for the properties of what a process does step by
\* step inside send_recv (the order of its calls, its count tables).
SpecTrace == InitDist /\ [][DistStep]_vars

\* The number of destinations q has named in its calls so far.
RECURSIVE DestsNamed(_, _)
DestsNamed(q, i) ==
    IF i > Len(prev[q]) THEN Len(destination[q])
    ELSE Len(prev[q][i].destination) + DestsNamed(q, i + 1)

\* The number of destinations all the processes have named so far.
RECURSIVE DestsNamedFrom(_)
DestsNamedFrom(q) == IF q >= NProc THEN 0 ELSE DestsNamed(q, 1) + DestsNamedFrom(q + 1)

\* A second round: the caller of p, whose first send_recv has returned,
\* calls route_data("distribute", ...) again, with new arguments and with
\* the tag of the first round or the next one, the same on every process.
SecondRound(p) ==
    /\ pc[p] = "done"
    /\ keyword[p] = "distribute"
    /\ outcome[p] = "returned"
    /\ round[p] = 1
    /\ \E n \in 0..(MaxSends - DestsNamedFrom(0)) : \E a \in DistArgs(2, p, n) :
          /\ destination' = [destination EXCEPT ![p] = a.destination]
          /\ data' = [data EXCEPT ![p] = a.data]
    /\ \E t \in {tag[p], tag[p] + 1} :
          /\ \A q \in Procs : round[q] = 2 => tag[q] = t
          /\ tag' = [tag EXCEPT ![p] = t]
    /\ round' = [round EXCEPT ![p] = 2]
    /\ prev' = [prev EXCEPT ![p] = Append(@, [destination |-> destination[p],
                    data |-> data[p], tag |-> tag[p], ret |-> ret[p]])]
    /\ outcome' = [outcome EXCEPT ![p] = "none"]
    /\ ret' = [ret EXCEPT ![p] = NoneVal]
    /\ retobj' = [retobj EXCEPT ![p] = {}]
    /\ events' = [events EXCEPT ![p] = <<>>]
    /\ pc' = [pc EXCEPT ![p] = "call"]
    /\ UNCHANGED <<wrote, arg_data, arg_sendcounts, keyword, root, sendcounts, buffered,
                   destination_count, source_count, collq, colldone, sources,
                   recvbuff, recvreq, sendidx, recvidx, sendreq, recvbuf, chan>>

\* The steps of two distribute rounds, one after the other.
RoundsStep ==
    \/ DistStep
    \/ \E p \in Procs : SecondRound(p)

SpecRounds == InitDist /\ [][RoundsStep]_vars

\* A second round in which every caller chooses its tag on its own: as
\* SecondRound, but the tags of the processes need not agree.
SecondRoundOwnTag(p) ==
    /\ pc[p] = "done"
    /\ keyword[p] = "distribute"
    /\ outcome[p] = "returned"
    /\ round[p] = 1
    /\ \E n \in 0..(MaxSends - DestsNamedFrom(0)) : \E a \in DistArgs(2, p, n) :
          /\ destination' = [destination EXCEPT ![p] = a.destination]
          /\ data' = [data EXCEPT ![p] = a.data]
    /\ \E t \in {tag[p], tag[p] + 1} : tag' = [tag EXCEPT ![p] = t]
    /\ round' = [round EXCEPT ![p] = 2]
    /\ prev' = [prev EXCEPT ![p] = Append(@, [destination |-> destination[p],
                    data |-> data[p], tag |-> tag[p], ret |-> ret[p]])]
    /\ outcome' = [outcome EXCEPT ![p] = "none"]
    /\ ret' = [ret EXCEPT ![p] = NoneVal]
    /\ retobj' = [retobj EXCEPT ![p] = {}]
    /\ events' = [events EXCEPT ![p] = <<>>]
    /\ pc' = [pc EXCEPT ![p] = "call"]
    /\ UNCHANGED <<wrote, arg_data, arg_sendcounts, keyword, root, sendcounts,
                   buffered, destination_count, source_count, collq, colldone,
                   sources, recvbuff, recvreq, sendidx, recvidx, sendreq, recvbuf, chan>>

\* The steps of two distribute rounds, the second with tags that may differ
\* from process to process.
TagsStep ==
    \/ DistStep
    \/ \E p \in Procs : SecondRoundOwnTag(p)

SpecTags == InitDist /\ [][TagsStep]_vars

\* The same round again: the caller of p, whose first send_recv has
\* returned, calls route_data("distribute", ...) with the same destination
\* and data and the next tag.
RepeatRound(p) ==
    /\ pc[p] = "done"
    /\ keyword[p] = "distribute"
    /\ outcome[p] = "returned"
    /\ round[p] = 1
    /\ tag' = [tag EXCEPT ![p] = @ + 1]
    /\ round' = [round EXCEPT ![p] = 2]
    /\ prev' = [prev EXCEPT ![p] = Append(@, [destination |-> destination[p],
                    data |-> data[p], tag |-> tag[p], ret |-> ret[p]])]
    /\ outcome' = [outcome EXCEPT ![p] = "none"]
    /\ ret' = [ret EXCEPT ![p] = NoneVal]
    /\ retobj' = [retobj EXCEPT ![p] = {}]
    /\ events' = [events EXCEPT ![p] = <<>>]
    /\ pc' = [pc EXCEPT ![p] = "call"]
    /\ UNCHANGED <<wrote, arg_data, arg_sendcounts, keyword, destination, data, root,
                   sendcounts, buffered, destination_count, source_count, collq,
                   colldone, sources, recvbuff, recvreq, sendidx, recvidx, sendreq,
                   recvbuf, chan>>

\* The steps of a distribute round made twice.
RepeatStep ==
    \/ DistStep
    \/ \E p \in Procs : RepeatRound(p)

SpecRepeat == InitDist /\ [][RepeatStep]_vars

-----------------------------------------------------------------------------
(* Gather and scatter rounds, and the gather/scatter round trip.            *)

\* Keywords that are no key of router_factory.
BadKeywords == {"reduce", "Distribute"}

\* The count tables of a scatter: every entry at most MaxLen.
CountTables == [Procs -> 0..MaxLen]

\* Every process calls gather_in_root with the same root and an array of
\* its own of up to MaxLen elements.
GatherArgs ==
    /\ \E rt \in Procs : root = [p \in Procs |-> rt]
    /\ \E n \in [Procs -> 0..MaxLen] :
          data = [p \in Procs |-> ArrayData(1, p, n[p])]
    /\ sendcounts = [p \in Procs |-> NoneVal]

\* Every process calls scatter_from_root with the same root and the same
\* sendcounts (a count table, or None); the root passes an array that holds
\* at least the elements the table asks for, the others pass no data.
ScatterArgs ==
    \E rt \in Procs, n \in 0..(NProc * MaxLen + 1) :
       \E c \in {NoneVal} \cup {t \in CountTables : Total(t) <= n} :
          /\ root = [p \in Procs |-> rt]
          /\ data = [p \in Procs |-> IF p = rt THEN ArrayData(1, p, n) ELSE NoData]
          /\ sendcounts = [p \in Procs |-> c]

\* Every process calls route_data with the keyword of one pattern, or with
\* a keyword that names none, and that pattern's arguments.
InitColl ==
    /\ Fresh
    /\ tag = [p \in Procs |-> 0]
    /\ destination = [p \in Procs |-> <<>>]
    /\ \E k \in {"gather", "scatter"} :
          /\ keyword \in [Procs -> {k} \cup BadKeywords]
          /\ IF k = "gather" THEN GatherArgs ELSE ScatterArgs
    /\ arg_data = data
    /\ arg_sendcounts = sendcounts

\* The round trip: a process whose scatter has returned gathers the buffer
\* it received back to the same root.
GatherBack(p) ==
    /\ pc[p] = "done"
    /\ keyword[p] = "scatter"
    /\ outcome[p] = "returned"
    /\ keyword' = [keyword EXCEPT ![p] = "gather"]
    /\ data' = [data EXCEPT ![p] = [isList |-> FALSE, list |-> <<>>, arr |-> <<ret[p]>>]]
    /\ outcome' = [outcome EXCEPT ![p] = "none"]
    /\ ret' = [ret EXCEPT ![p] = NoneVal]
    /\ retobj' = [retobj EXCEPT ![p] = {}]
    /\ events' = [events EXCEPT ![p] = <<>>]
    /\ pc' = [pc EXCEPT ![p] = "call"]
    /\ round' = [round EXCEPT ![p] = @ + 1]
    /\ prev' = [prev EXCEPT ![p] = Append(@, [destination |-> destination[p],
                    data |-> data[p], tag |-> tag[p], ret |-> ret[p]])]
    /\ UNCHANGED <<wrote, arg_data, arg_sendcounts, destination, tag, root, sendcounts,
                   buffered, destination_count, source_count, collq, colldone,
                   sources, recvbuff, recvreq, sendidx, recvidx, sendreq, recvbuf, chan>>

\* The steps of gather and scatter rounds.
CollStep ==
    \/ \E p \in Procs : RouteData(p)
    \/ \E p \in Procs : AllgatherExit(p)
    \/ \E p \in Procs : GathervExit(p)
    \/ \E p \in Procs : ScattervExit(p)
    \/ \E p \in Procs : GatherBack(p)

SpecColl == InitColl /\ [][CollStep]_vars

-----------------------------------------------------------------------------
(* Rounds in which some processes of the communicator never make the call.  *)

\* The arguments of route_data("gather", ...), with the same root on every
\* process.
GatherCall ==
    /\ keyword = [p \in Procs |-> "gather"]
    /\ tag = [p \in Procs |-> 0]
    /\ destination = [p \in Procs |-> <<>>]
    /\ GatherArgs
    /\ arg_data = data
    /\ arg_sendcounts = sendcounts

\* A distribute or a gather round that the processes of some set (possibly
\* empty) never invoke: they stay outside the call ("idle"), and the
\* arguments they would have passed are left empty.
InitAbsent ==
    /\ FreshRouters
    /\ DistCall \/ GatherCall
    /\ \E absent \in SUBSET Procs :
          /\ pc = [p \in Procs |-> IF p \in absent THEN "idle" ELSE "call"]
          /\ \A p \in absent : destination[p] = <<>> /\ Size(data[p].arr) = 0

\* The steps of a distribute or gather round.
AbsentStep ==
    \/ DistStep
    \/ \E p \in Procs : AllgatherExit(p)
    \/ \E p \in Procs : GathervExit(p)

SpecAbsent == InitAbsent /\ [][AbsentStep]_vars

-----------------------------------------------------------------------------
(* A call with an unrecognized keyword after a distribute round.            *)

\* The caller of p, whose send_recv has returned, calls route_data with a
\* keyword that names no pattern (and the arguments of its last call).
BadCall(p) ==
    /\ pc[p] = "done"
    /\ keyword[p] = "distribute"
    /\ outcome[p] = "returned"
    /\ \E k \in BadKeywords : keyword' = [keyword EXCEPT ![p] = k]
    /\ round' = [round EXCEPT ![p] = @ + 1]
    /\ prev' = [prev EXCEPT ![p] = Append(@, [destination |-> destination[p],
                    data |-> data[p], tag |-> tag[p], ret |-> ret[p]])]
    /\ outcome' = [outcome EXCEPT ![p] = "none"]
    /\ ret' = [ret EXCEPT ![p] = NoneVal]
    /\ retobj' = [retobj EXCEPT ![p] = {}]
    /\ events' = [events EXCEPT ![p] = <<>>]
    /\ pc' = [pc EXCEPT ![p] = "call"]
    /\ UNCHANGED <<wrote, arg_data, arg_sendcounts, destination, data, tag, root,
                   sendcounts, buffered, destination_count, source_count, collq,
                   colldone, sources, recvbuff, recvreq, sendidx, recvidx, sendreq,
                   recvbuf, chan>>

\* The steps of a distribute round followed by calls with a bad keyword.
MisuseStep ==
    \/ DistStep
    \/ \E p \in Procs : BadCall(p)

SpecMisuse == InitDist /\ [][MisuseStep]_vars

-----------------------------------------------------------------------------
(* One distribute round whose destination ranks are not validated.          *)

\* The (destination, data) arguments p may pass with n destinations when
\* nothing restricts the ranks to those of the communicator: any of 0..P.
AnyRankArgs(c, p, n) ==
    IF n = 0
    THEN {[destination |-> <<>>, data |-> ListData(c, p, <<>>, <<>>)]}
    ELSE {[destination |-> d, data |-> ListData(c, p, d, sz)] :
             d \in [1..n -> 0..NProc], sz \in [1..n -> 0..MaxSize]}
         \cup {[destination |-> d, data |-> ArrayData(c, p, m)] :
                 d \in [1..n -> 0..NProc], m \in 0..MaxSize}

\* The arguments of the calls of the processes p, p+1, ... (a sequence,
\* rank p first) with at most budget destinations together.
RECURSIVE AnyRankArgsFrom(_, _)
AnyRankArgsFrom(p, budget) ==
    IF p >= NProc THEN {<<>>}
    ELSE UNION {{<<a>> \o rest : a \in AnyRankArgs(1, p, n),
                                 rest \in AnyRankArgsFrom(p + 1, budget - n)} :
                n \in 0..budget}

\* Every process calls route_data("distribute", ...) with destination ranks
\* that may lie outside the communicator.
InitAnyRank ==
    /\ Fresh
    /\ keyword = [p \in Procs |-> "distribute"]
    /\ tag = [p \in Procs |-> 0]
    /\ root = [p \in Procs |-> 0]
    /\ sendcounts = [p \in Procs |-> NoneVal]
    /\ \E args \in AnyRankArgsFrom(0, MaxSends) :
          /\ destination = [p \in Procs |-> args[p + 1].destination]
          /\ data = [p \in Procs |-> args[p + 1].data]
    /\ arg_data = data
    /\ arg_sendcounts = sendcounts

SpecAnyRank == InitAnyRank /\ [][DistStep]_vars

-----------------------------------------------------------------------------
(* One distribute round in which some process names no destination and the  *)
(* arrays of a list may differ in size by more than one element.            *)

\* The (destination, data) arguments p may pass with n destinations, the
\* arrays of a list having up to MaxSize + 1 elements each.
UnevenArgs(c, p, n) ==
    IF n = 0
    THEN {[destination |-> <<>>, data |-> ListData(c, p, <<>>, <<>>)]}
    ELSE {[destination |-> d, data |-> ListData(c, p, d, sz)] :
             d \in [1..n -> Procs], sz \in [1..n -> 0..(MaxSize + 1)]}
         \cup {[destination |-> d, data |-> ArrayData(c, p, m)] :
                 d \in [1..n -> Procs], m \in 0..(MaxSize + 1)}

\* The arguments of the calls of the processes p, p+1, ... (a sequence,
\* rank p first) with at most budget destinations together.
RECURSIVE UnevenArgsFrom(_, _)
UnevenArgsFrom(p, budget) ==
    IF p >= NProc THEN {<<>>}
    ELSE UNION {{<<a>> \o rest : a \in UnevenArgs(1, p, n),
                                 rest \in UnevenArgsFrom(p + 1, budget - n)} :
                n \in 0..budget}

\* Every process calls route_data("distribute", ...), at least one of them
\* with an empty destination list.
InitEmptyList ==
    /\ Fresh
    /\ keyword = [p \in Procs |-> "distribute"]
    /\ tag = [p \in Procs |-> 0]
    /\ root = [p \in Procs |-> 0]
    /\ sendcounts = [p \in Procs |-> NoneVal]
    /\ \E args \in UnevenArgsFrom(0, MaxSends) :
          /\ \E e \in Procs : args[e + 1].destination = <<>>
          /\ destination = [p \in Procs |-> args[p + 1].destination]
          /\ data = [p \in Procs |-> args[p + 1].data]
    /\ arg_data = data
    /\ arg_sendcounts = sendcounts

SpecEmptyList == InitEmptyList /\ [][DistStep]_vars

-----------------------------------------------------------------------------
(* One scatter round in which every process passes data.                    *)

\* Every process calls scatter_from_root with the same root and the same
\* sendcounts (a count table, or None); the root passes an array that holds
\* at least the elements the table asks for, every other process passes an
\* array of its own of up to MaxLen elements.
ScatterAnyArgs ==
    \E rt \in Procs, n \in 0..(NProc * MaxLen + 1) :
       \E c \in {NoneVal} \cup {t \in CountTables : Total(t) <= n} :
          \E m \in [Procs -> 0..MaxLen] :
             /\ root = [p \in Procs |-> rt]
             /\ data = [p \in Procs |-> ArrayData(1, p, IF p = rt THEN n ELSE m[p])]
             /\ m[rt] = 0
             /\ sendcounts = [p \in Procs |-> c]

\* Every process calls route_data("scatter", ...).
InitScatter ==
    /\ Fresh
    /\ tag = [p \in Procs |-> 0]
    /\ destination = [p \in Procs |-> <<>>]
    /\ keyword = [p \in Procs |-> "scatter"]
    /\ ScatterAnyArgs
    /\ arg_data = data
    /\ arg_sendcounts = sendcounts

\* The steps of a scatter round.
ScatterStep ==
    \/ \E p \in Procs : RouteData(p)
    \/ \E p \in Procs : ScattervExit(p)

SpecScatter == InitScatter /\ [][ScatterStep]_vars

-----------------------------------------------------------------------------
(* A gather or a scatter round after a distribute round.                    *)

\* The caller of p, whose send_recv has returned, calls route_data("gather",
\* ...) with an array of its own, or route_data("scatter", ...) with a count
\* table (and, at the root, an array that holds the elements it asks for);
\* every process makes the same choice of pattern and count table.
CollAfterDist(p) ==
    /\ pc[p] = "done"
    /\ keyword[p] = "distribute"
    /\ outcome[p] = "returned"
    /\ \/ /\ \A q \in Procs : round[q] > 1 => keyword[q] = "gather"
          /\ keyword' = [keyword EXCEPT ![p] = "gather"]
          /\ \E n \in 0..MaxLen : data' = [data EXCEPT ![p] = ArrayData(2, p, n)]
          /\ UNCHANGED sendcounts
       \/ /\ \A q \in Procs : round[q] > 1 => keyword[q] = "scatter"
          /\ keyword' = [keyword EXCEPT ![p] = "scatter"]
          /\ \E c \in CountTables :
                /\ \A q \in Procs : round[q] > 1 => sendcounts[q] = c
                /\ sendcounts' = [sendcounts EXCEPT ![p] = c]
                /\ data' = [data EXCEPT ![p] =
                              IF p = root[p] THEN ArrayData(2, p, Total(c)) ELSE NoData]
    /\ round' = [round EXCEPT ![p] = @ + 1]
    /\ prev' = [prev EXCEPT ![p] = Append(@, [destination |-> destination[p],
                    data |-> data[p], tag |-> tag[p], ret |-> ret[p]])]
    /\ outcome' = [outcome EXCEPT ![p] = "none"]
    /\ ret' = [ret EXCEPT ![p] = NoneVal]
    /\ retobj' = [retobj EXCEPT ![p] = {}]
    /\ events' = [events EXCEPT ![p] = <<>>]
    /\ pc' = [pc EXCEPT ![p] = "call"]
    /\ UNCHANGED <<wrote, arg_data, arg_sendcounts, destination, tag, root,
                   buffered, destination_count, source_count, collq,
                   colldone, sources, recvbuff, recvreq, sendidx, recvidx, sendreq,
                   recvbuf, chan>>

\* The steps of a gather or scatter round, made first or after a distribute
\* round.
AfterStep ==
    \/ DistStep
    \/ \E p \in Procs : CollAfterDist(p)
    \/ \E p \in Procs : AllgatherExit(p)
    \/ \E p \in Procs : GathervExit(p)
    \/ \E p \in Procs : ScattervExit(p)

SpecAfter == (InitDist \/ InitColl) /\ [][AfterStep]_vars

-----------------------------------------------------------------------------
(* One round of any of the three patterns.                                  *)

\* Every process calls route_data with the keyword and the arguments of a
\* distribute, a gather or a scatter round.
InitDispatch == InitDist \/ InitColl

\* The steps of a round of any pattern.
DispatchStep ==
    \/ \E p \in Procs : RouteData(p)
    \/ \E p \in Procs : AlltoallExit(p)
    \/ \E p \in Procs : SendWait(p)
    \/ \E p \in Procs : RecvWait(p)
    \/ \E s \in Procs, d \in Procs :
          \E i \in 1..Len(chan[s][d]), j \in 1..Len(recvreq[d]) : Deliver(s, d, i, j)
    \/ \E p \in Procs : AllgatherExit(p)
    \/ \E p \in Procs : GathervExit(p)
    \/ \E p \in Procs : ScattervExit(p)

SpecDispatch == InitDispatch /\ [][DispatchStep]_vars

-----------------------------------------------------------------------------
(* Properties of distribute (send_recv), checked under SpecDist.            *)

\* Every process has left its call (returned or raised).
AllDone == \A p \in Procs : pc[p] = "done"

\* send_recv has returned at p.
DistReturned(p) == keyword[p] = "distribute" /\ outcome[p] = "returned"

\* send_recv is past its count exchange at p.
Exchanged(p) == keyword[p] = "distribute" /\ pc[p] \in {"sendwait", "recvwait", "done"}

\* The positions of s's destination list that name p.
EntriesFor(s, p) == {j \in 1..Len(destination[s]) : destination[s][j] = p}

\* The payload s addresses to the destination at position j of its list:
\* the j-th array of its data list, or its one array, flattened.
Addressed(s, j) ==
    IF data[s].isList THEN Flatten(data[s].list[j]) ELSE Flatten(data[s].arr)

\* The number of elements s sends to p in the round: the sizes of all the
\* payloads s addresses to p.
RECURSIVE SentFrom(_, _, _)
SentFrom(s, p, j) ==
    IF j > Len(destination[s]) THEN 0
    ELSE (IF destination[s][j] = p THEN Len(Addressed(s, j)) ELSE 0)
         + SentFrom(s, p, j + 1)
ElementsSent(s, p) == SentFrom(s, p, 1)

\* The last position of s's destination list that names p.
LastEntryFor(s, p) == CHOOSE j \in EntriesFor(s, p) : \A k \in EntriesFor(s, p) : k <= j

StrictlyAscending(q) == \A i \in 1..(Len(q) - 1) : q[i] < q[i + 1]

\* C1 (as claimed): a distribute round never gets stuck: as long as some
\* process has not left its call, some step of the round can be taken, with
\* or without buffering in the communicator.
C1_DeadlockFree == AllDone \/ ENABLED DistStep

\* C2: the source list send_recv returns at p is strictly ascending and is
\* exactly the set of ranks whose destination_count entry for p is nonzero.
C2_SourcesAscendingExact ==
    \A p \in Procs : DistReturned(p) =>
        /\ StrictlyAscending(ret[p][1])
        /\ {ret[p][1][i] : i \in 1..Len(ret[p][1])}
               = {s \in Procs : destination_count[s][p] # 0}

\* C2 witness: a process has returned with two sources.
C2_Witness == \E p \in Procs : DistReturned(p) /\ Len(ret[p][1]) = 2

\* C3 (as claimed): one buffer per returned source, each as long as the
\* number of elements that source sent to the process in the round.
C3_LengthIsElementsSent ==
    \A p \in Procs : DistReturned(p) =>
        /\ Len(ret[p][2]) = Len(ret[p][1])
        /\ \A i \in 1..Len(ret[p][1]) :
              Len(ret[p][2][i]) = ElementsSent(ret[p][1][i], p)

\* C3 (amended): one buffer per returned source, each as long as the last
\* payload that source addressed to the process; that is the number of
\* elements the source sent when its destination list names the process once.
C3_LengthIsLastPayload ==
    \A p \in Procs : DistReturned(p) =>
        /\ Len(ret[p][2]) = Len(ret[p][1])
        /\ Len(ret[p][1]) = Cardinality({s \in Procs : EntriesFor(s, p) # {}
                                /\ Len(Addressed(s, LastEntryFor(s, p))) # 0})
        /\ \A i \in 1..Len(ret[p][1]) :
              LET s == ret[p][1][i]
              IN  /\ EntriesFor(s, p) # {}
                  /\ Len(ret[p][2][i]) = Len(Addressed(s, LastEntryFor(s, p)))
                  /\ Cardinality(EntriesFor(s, p)) = 1
                        => Len(ret[p][2][i]) = ElementsSent(s, p)

\* C3 witness: a process has returned a buffer received from a higher rank
\* that named it once, and sent it something.
C3_Witness ==
    \E p \in Procs : DistReturned(p) /\
        \E i \in 1..Len(ret[p][1]) :
            /\ ret[p][1][i] > p
            /\ Cardinality(EntriesFor(ret[p][1][i], p)) = 1
            /\ Len(ret[p][2][i]) > 0

\* C13: when send_recv has returned at p, its send loop has run to the end
\* and the last send it waited for is complete (without buffering: every
\* message p sent has been received), every receive p posted is complete,
\* and the buffers returned are the filled receive buffers.
C13_ReturnAfterCompletion ==
    \A p \in Procs : DistReturned(p) =>
        /\ sendidx[p] = Len(destination[p]) + 1
        /\ sendreq[p] # "pending"
        /\ ~buffered => \A d \in Procs : chan[p][d] = <<>>
        /\ \A j \in 1..Len(recvreq[p]) : recvreq[p][j].state = "complete"
        /\ recvidx[p] = Len(recvreq[p])
        /\ Len(recvreq[p]) = Len(ret[p][1])
        /\ ret[p][2] = recvbuff[p]

\* C13 witness: without buffering, a process that sent a message and posted
\* a receive has returned.
C13_Witness ==
    \E p \in Procs :
        /\ DistReturned(p) /\ ~buffered
        /\ Len(destination[p]) > 0
        /\ Len(recvreq[p]) > 0
        /\ ret[p][2][1] # Zeros(Len(ret[p][2][1]))

\* The first position of s's destination list that names p.
FirstEntryFor(s, p) == CHOOSE j \in EntriesFor(s, p) : \A k \in EntriesFor(s, p) : j <= k

\* The ranks of the set S from rank r on, ascending.
RECURSIVE RanksFrom(_, _)
RanksFrom(S, r) ==
    IF r >= NProc THEN <<>>
    ELSE (IF r \in S THEN <<r>> ELSE <<>>) \o RanksFrom(S, r + 1)

\* The result of send_recv at p as a function of the arguments of the round
\* alone: the sources are the ranks whose last payload for p is not empty,
\* ascending, and the buffer of a source has the length of that payload and
\* holds the first payload the source addressed to p.
ExpectedSources(p) ==
    RanksFrom({s \in Procs : EntriesFor(s, p) # {}
                  /\ Len(Addressed(s, LastEntryFor(s, p))) # 0}, 0)
ExpectedBuffer(s, p) ==
    LET first == Addressed(s, FirstEntryFor(s, p))
    IN  [k \in 1..Len(Addressed(s, LastEntryFor(s, p))) |->
            IF k <= Len(first) THEN first[k] ELSE 0]
ExpectedResult(p) ==
    LET srcs == ExpectedSources(p)
    IN  <<srcs, [i \in 1..Len(srcs) |-> ExpectedBuffer(srcs[i], p)]>>

\* C14: whatever the order of the processes' steps and of the deliveries,
\* the (sources, recvbuff) that send_recv returns at a process is the one
\* result the arguments of the round determine.
C14_ResultIsFunctionOfInputs ==
    \A p \in Procs : DistReturned(p) => ret[p] = ExpectedResult(p)

\* C14 witness: a process has returned buffers from two sources while
\* another process is still inside its call.
C14_Witness ==
    \E p \in Procs, q \in Procs :
        /\ DistReturned(p) /\ Len(ret[p][1]) = 2
        /\ ret[p][2][1] # <<>> /\ ret[p][2][2] # <<>>
        /\ q # p /\ pc[q] # "done"

\* p takes no part in the round: it names no destination, and the count of
\* every rank for p is zero (no rank names p, or the last payload a rank
\* addresses to p is empty).
EmptyParticipant(p) ==
    /\ keyword[p] = "distribute"
    /\ destination[p] = <<>>
    /\ \A s \in Procs :
          EntriesFor(s, p) = {} \/ Len(Addressed(s, LastEntryFor(s, p))) = 0

\* C18: a process that takes no part in the round, once past the count
\* exchange, has posted no receive and issued no send, never waits for a
\* send, can return at once without any delivery, and returns an empty
\* source list and an empty buffer list.
C18_EmptyParticipation ==
    \A p \in Procs :
        (EmptyParticipant(p) /\ pc[p] \notin {"call", "alltoall"}) =>
            /\ pc[p] \in {"recvwait", "done"}
            /\ sources[p] = <<>> /\ recvreq[p] = <<>> /\ recvbuff[p] = <<>>
            /\ sendreq[p] = "none" /\ \A d \in Procs : chan[p][d] = <<>>
            /\ pc[p] = "recvwait" => ENABLED RecvWait(p)
            /\ pc[p] = "done" => (outcome[p] = "returned" /\ ret[p] = << <<>>, <<>> >>)

\* C18 witness: a process that takes no part has returned while another
\* process, which names destinations, is still inside its call.
C18_Witness ==
    \E p \in Procs, q \in Procs :
        /\ EmptyParticipant(p) /\ DistReturned(p)
        /\ ret[p] = << <<>>, <<>> >>
        /\ q # p /\ Len(destination[q]) > 0 /\ pc[q] \in {"sendwait", "recvwait"}

\* C19: once send_recv has filled destination_count from a list of
\* payloads, the entry of a rank is the size of the payload of the last
\* list entry that names it, also when the rank is named more than once,
\* and zero when it is not named; the fill raises nothing.
C19_LastEntryWins ==
    \A p \in Procs :
        (keyword[p] = "distribute" /\ data[p].isList /\ pc[p] # "call") =>
            /\ \A r \in Procs :
                  destination_count[p][r] =
                      IF EntriesFor(p, r) = {} THEN 0
                      ELSE Len(Addressed(p, LastEntryFor(p, r)))
            /\ pc[p] = "alltoall" => outcome[p] = "none"

\* C19 witness: a process has filled destination_count from a list that
\* names a rank twice, with payloads of different sizes.
C19_Witness ==
    \E p \in Procs, r \in Procs :
        /\ keyword[p] = "distribute" /\ data[p].isList /\ pc[p] = "alltoall"
        /\ Cardinality(EntriesFor(p, r)) = 2
        /\ Len(Addressed(p, FirstEntryFor(p, r))) # Len(Addressed(p, LastEntryFor(p, r)))
        /\ destination_count[p][r] = Len(Addressed(p, LastEntryFor(p, r)))

\* The number of calls of kind op that s has made towards the peer d.
CallsTo(s, op, d) ==
    Len(SelectSeq(events[s], LAMBDA e : e[1] = op /\ e[2] = d))

\* C25 (as claimed): when every process has returned from the round, every
\* rank s has sent to every rank d as many messages as d has posted receives
\* for s, and no message is left undelivered in the channel.
C25_SendsMatchReceives ==
    (\A p \in Procs : pc[p] = "done" /\ DistReturned(p)) =>
        \A s \in Procs, d \in Procs :
           /\ CallsTo(s, "Isend", d) = CallsTo(d, "Irecv", s)
           /\ chan[s][d] = <<>>

-----------------------------------------------------------------------------
(* Properties of two distribute rounds, checked under SpecRounds.           *)

\* The destination list and the data s passed in its call number n.
ArgsOf(s, n) ==
    IF round[s] = n THEN [destination |-> destination[s], data |-> data[s]]
    ELSE [destination |-> prev[s][n].destination, data |-> prev[s][n].data]

\* No destination list passed so far names a rank twice.
NeverRepeats ==
    \A q \in Procs : \A n \in 1..round[q] :
        LET d == ArgsOf(q, n).destination
        IN  \A j, k \in 1..Len(d) : d[j] = d[k] => j = k

\* The flattened payloads s addressed to p in its call number n.
PayloadsFor(s, p, n) ==
    LET a == ArgsOf(s, n)
    IN  {IF a.data.isList THEN Flatten(a.data.list[j]) ELSE Flatten(a.data.arr) :
            j \in {k \in 1..Len(a.destination) : a.destination[k] = p}}

\* C4 (as claimed, for callers whose destination lists never name a rank
\* twice): every buffer send_recv returns at p holds a payload that its
\* source addressed to p in the round p is returning from.
C4_BufferIsPayloadOfRound ==
    NeverRepeats =>
        \A p \in Procs : DistReturned(p) =>
            /\ Len(ret[p][2]) = Len(ret[p][1])
            /\ \A i \in 1..Len(ret[p][1]) :
                  /\ round[ret[p][1][i]] >= round[p]
                  /\ ret[p][2][i] \in PayloadsFor(ret[p][1][i], p, round[p])

\* C16 (as claimed, for non-empty payloads and destination lists that never
\* name a rank twice): when s calls send_recv with one array and a list of
\* destinations, every listed destination at which the round returns has
\* received from s a buffer that holds the flattened array.
C16_BroadcastPayloadAtEveryDestination ==
    NeverRepeats =>
        \A d \in Procs : DistReturned(d) =>
            \A s \in Procs :
                (/\ round[s] >= round[d]
                 /\ ~ArgsOf(s, round[d]).data.isList
                 /\ Size(ArgsOf(s, round[d]).data.arr) > 0
                 /\ \E j \in 1..Len(ArgsOf(s, round[d]).destination) :
                       ArgsOf(s, round[d]).destination[j] = d) =>
                    \E i \in 1..Len(ret[d][1]) :
                        /\ ret[d][1][i] = s
                        /\ ret[d][2][i] = Flatten(ArgsOf(s, round[d]).data.arr)

\* The size of the payload at position j of the arguments a of a call.
PayloadSize(a, j) ==
    IF a.data.isList THEN Len(Flatten(a.data.list[j])) ELSE Len(Flatten(a.data.arr))

\* The positions of the destination list of the arguments a that name r.
Naming(a, r) == {j \in 1..Len(a.destination) : a.destination[j] = r}

\* The number of elements the arguments a address to r: the sizes of all
\* the payloads for r.
ElementsAddressed(a, r) ==
    SumSeq([j \in 1..Len(a.destination) |->
               IF a.destination[j] = r THEN PayloadSize(a, j) ELSE 0])

\* The size of the last payload the arguments a address to r (0 if none).
LastAddressed(a, r) ==
    IF Naming(a, r) = {} THEN 0
    ELSE PayloadSize(a, CHOOSE j \in Naming(a, r) : \A k \in Naming(a, r) : k <= j)

\* C20 (as claimed): when a distribute round has returned at p, after
\* whatever rounds came before, destination_count[r] is the number of
\* elements p addressed to r in that round, and source_count[s] the number
\* of elements s addressed to p in that round.
C20_CountsAreElementsOfLatestRound ==
    \A p \in Procs : DistReturned(p) =>
        /\ \A r \in Procs :
              destination_count[p][r] = ElementsAddressed(ArgsOf(p, round[p]), r)
        /\ \A s \in Procs :
              /\ round[s] >= round[p]
              /\ source_count[p][s] = ElementsAddressed(ArgsOf(s, round[p]), p)

\* C20 (amended): when a distribute round has returned at p, after whatever
\* rounds came before, destination_count[r] is the size of the last payload
\* p addressed to r in that round (0 if p did not name r), and
\* source_count[s] the size of the last payload s addressed to p in that
\* round; these are the element counts when no list names a rank twice.
C20_CountsOfLatestRoundOnly ==
    \A p \in Procs : DistReturned(p) =>
        /\ \A r \in Procs :
              /\ destination_count[p][r] = LastAddressed(ArgsOf(p, round[p]), r)
              /\ Cardinality(Naming(ArgsOf(p, round[p]), r)) <= 1 =>
                    destination_count[p][r] = ElementsAddressed(ArgsOf(p, round[p]), r)
        /\ \A s \in Procs :
              /\ round[s] >= round[p]
              /\ source_count[p][s] = LastAddressed(ArgsOf(s, round[p]), p)
              /\ Cardinality(Naming(ArgsOf(s, round[p]), p)) <= 1 =>
                    source_count[p][s] = ElementsAddressed(ArgsOf(s, round[p]), p)

\* C20 witness: the second round has returned at a process whose first
\* round had a nonzero count for a rank it does not name in the second, and
\* a nonzero count from a rank that does not name it in the second.
C20_Witness ==
    \E p \in Procs, r \in Procs, s \in Procs :
        /\ DistReturned(p) /\ round[p] = 2
        /\ LastAddressed(ArgsOf(p, 1), r) # 0
        /\ Naming(ArgsOf(p, 2), r) = {} /\ destination_count[p][r] = 0
        /\ LastAddressed(ArgsOf(s, 1), p) # 0
        /\ Naming(ArgsOf(s, 2), p) = {} /\ source_count[p][s] = 0

\* C26 (as claimed): every receive a process has posted in its current
\* round and that has completed was completed by a message sent in the round
\* of the same number, whether the rounds use the same tag or not.
C26_RoundIsolation ==
    \A p \in Procs : Exchanged(p) =>
        \A j \in 1..Len(recvreq[p]) :
            recvreq[p][j].state # "posted" => recvreq[p][j].by = round[p]

-----------------------------------------------------------------------------
(* Properties of rounds whose tags may differ, checked under SpecTags.      *)

\* The tag s passed in its call number n.
TagOf(s, n) == IF round[s] = n THEN tag[s] ELSE prev[s][n].tag

\* C28 (as claimed): every Irecv and Isend of a call carries the tag passed
\* to that call; a receive that has completed was posted for the tag the
\* sender passed; and when the sender a process expects a message from has
\* passed, in the same round, a tag other than the receiver's, the receive
\* for that sender stays posted and the receiver's call does not return.
C28_TagScoping ==
    \A p \in Procs :
       /\ \A d \in Procs : \A i \in 1..Len(chan[p][d]) :
             chan[p][d][i].call = round[p] => chan[p][d][i].tag = tag[p]
       /\ Exchanged(p) =>
             \A j \in 1..Len(recvreq[p]) :
                LET r == recvreq[p][j]
                IN  /\ r.tag = tag[p]
                    /\ TagOf(r.source, round[p]) # r.tag =>
                          /\ r.state = "posted"
                          /\ pc[p] # "done"

-----------------------------------------------------------------------------
(* Properties of a distribute round made twice, checked under SpecRepeat.   *)

\* The lengths of the buffers of a list.
Lengths(bufs) == [i \in 1..Len(bufs) |-> Len(bufs[i])]

\* C15: when the second of two distribute rounds with the same destination
\* and data at every process, and another tag, returns at p, it returns the
\* source list of the first round and buffers of the same sizes.
C15_SecondRoundSameSourcesAndSizes ==
    \A p \in Procs :
        (DistReturned(p) /\ round[p] = 2) =>
            /\ tag[p] # prev[p][1].tag
            /\ destination[p] = prev[p][1].destination /\ data[p] = prev[p][1].data
            /\ ret[p][1] = prev[p][1].ret[1]
            /\ Lengths(ret[p][2]) = Lengths(prev[p][1].ret[2])

\* C15 witness: the second round has returned at a process that receives
\* from two sources.
C15_Witness ==
    \E p \in Procs :
        /\ DistReturned(p) /\ round[p] = 2
        /\ Len(ret[p][1]) = 2
        /\ \A i \in 1..2 : Len(ret[p][2][i]) > 0

-----------------------------------------------------------------------------
(* Properties of gather, scatter and route_data, checked under SpecColl.    *)

\* No process passed a keyword that names no pattern.
AllRecognized == \A q \in Procs : keyword[q] \in RouterFactory

\* scatter_from_root has returned at p.
ScatterReturned(p) == keyword[p] = "scatter" /\ outcome[p] = "returned"

\* gather_in_root has returned at p.
GatherReturned(p) == keyword[p] = "gather" /\ outcome[p] = "returned"

\* The sum of the entries of c for the ranks below r, written out.
SumBelow(c, r) == SumSeq([i \in 1..r |-> c[i - 1]])

\* The elements of a flat buffer from position first (0-based) on, n of them.
Slice(buf, first, n) == [k \in 1..n |-> buf[first + k]]

\* The buffers of the ranks r, r+1, ... one after the other, each flattened.
RECURSIVE ConcatFrom(_, _)
ConcatFrom(bufs, r) ==
    IF r >= NProc THEN <<>> ELSE Flatten(bufs[r].arr) \o ConcatFrom(bufs, r + 1)

\* C5 (as claimed): when every process calls scatter without a count table,
\* a process that has left the call has returned its slice of N // P elements
\* of the root's buffer.
C5_EqualDivisionReturnsEverywhere ==
    \A p \in Procs :
        (AllRecognized /\ keyword[p] = "scatter" /\ arg_sendcounts[p] = NoneVal
         /\ pc[p] = "done") =>
            LET n == Size(arg_data[root[p]].arr) \div NProc
            IN  /\ outcome[p] = "returned"
                /\ ret[p] = Slice(Flatten(arg_data[root[p]].arr), p * n, n)

\* C6: after scattering the root's buffer B with the count table c, where B
\* has sum(c) elements, and gathering the pieces back, the root holds (B, c).
C6_RoundTrip ==
    \A p \in Procs :
        (GatherReturned(p) /\ p = root[p] /\ arg_sendcounts[p] # NoneVal
         /\ Size(arg_data[p].arr) = SumBelow(arg_sendcounts[p], NProc)) =>
            ret[p] = <<Flatten(arg_data[p].arr), arg_sendcounts[p]>>

\* C6 witness: the root has gathered back a buffer scattered with uneven,
\* nonzero counts.
C6_Witness ==
    \E p \in Procs :
        /\ GatherReturned(p) /\ p = root[p] /\ arg_sendcounts[p] # NoneVal
        /\ Size(arg_data[p].arr) = SumBelow(arg_sendcounts[p], NProc)
        /\ arg_sendcounts[p][0] > 0
        /\ arg_sendcounts[p][1] > arg_sendcounts[p][0]
        /\ Len(ret[p][1]) = Size(arg_data[p].arr)

\* C7: scatter with a count table c returns at rank r the c[r] elements of
\* the root's flattened buffer that start at the offset c[0] + ... + c[r-1].
C7_ScatterSlice ==
    \A p \in Procs :
        (ScatterReturned(p) /\ arg_sendcounts[p] # NoneVal) =>
            LET c == arg_sendcounts[p]
            IN  /\ Len(ret[p]) = c[p]
                /\ ret[p] = Slice(Flatten(arg_data[root[p]].arr), SumBelow(c, p), c[p])

\* C7 witness: a rank that is not the root has returned a slice that starts
\* at a nonzero offset.
C7_Witness ==
    \E p \in Procs :
        /\ ScatterReturned(p) /\ arg_sendcounts[p] # NoneVal /\ p # root[p]
        /\ SumBelow(arg_sendcounts[p], p) > 0
        /\ Len(ret[p]) > 0

\* C8: gather returns the buffers of all ranks, one after the other in rank
\* order, at the root, and None at every other process.
C8_GatherConcatAtRoot ==
    \A p \in Procs : GatherReturned(p) =>
        IF p = root[p]
        THEN /\ ret[p][1] = ConcatFrom(data, 0)
             /\ Len(ret[p][1]) = SumSeq([i \in 1..NProc |-> Size(data[i - 1].arr)])
        ELSE ret[p][1] = NoneVal

\* C8 witness: the root and another process have returned from a gather in
\* which two ranks contributed buffers of different, nonzero sizes.
C8_Witness ==
    \E p \in Procs, q \in Procs :
        /\ GatherReturned(p) /\ p = root[p]
        /\ GatherReturned(q) /\ q # p /\ ret[q][1] = NoneVal
        /\ Size(data[p].arr) > 0 /\ Size(data[q].arr) > Size(data[p].arr)
        /\ Len(ret[p][1]) >= Size(data[p].arr) + Size(data[q].arr)

\* C9: gather returns at every process, root or not, the count vector whose
\* entry r is the number of elements of rank r's buffer.
C9_GatherCountsEverywhere ==
    \A p \in Procs : GatherReturned(p) =>
        /\ DOMAIN ret[p][2] = Procs
        /\ \A r \in Procs : ret[p][2][r] = Size(data[r].arr)

\* C9 witness: a process that is not the root has returned a count vector
\* with different nonzero entries.
C9_Witness ==
    \E p \in Procs :
        /\ GatherReturned(p) /\ p # root[p]
        /\ ret[p][2][0] > 0 /\ ret[p][2][1] > ret[p][2][0]

\* C10 (as claimed): a call with a keyword outside router_factory ends in
\* the ValueError of route_data.
C10_RaisesValueError ==
    \A p \in Procs :
        (keyword[p] \notin RouterFactory /\ pc[p] = "done") =>
            outcome[p] = "ValueError"

\* C17 (as claimed): when every process calls scatter without a count table
\* and the root's buffer of N elements is not a multiple of P, no process
\* ends its call in an error, and no returned buffer holds one of the N mod P
\* elements at the end of the root's buffer.
C17_RemainderDroppedWithoutError ==
    \A p \in Procs :
        LET B == Flatten(arg_data[root[p]].arr)
        IN  (AllRecognized /\ keyword[p] = "scatter" /\ arg_sendcounts[p] = NoneVal
             /\ Len(B) % NProc # 0 /\ pc[p] = "done") =>
                /\ outcome[p] = "returned"
                /\ \A k \in (NProc * (Len(B) \div NProc) + 1)..Len(B) :
                      \A i \in 1..Len(ret[p]) : ret[p][i] # B[k]

-----------------------------------------------------------------------------
(* Properties of a call with an unrecognized keyword, checked under          *)
(* SpecMisuse.                                                               *)

\* The communication state of p: the collectives it has entered, the
\* messages it has sent and are not matched yet, the receives it has posted.
CommStateOf(p) == <<collq[p], colldone[p], chan[p], recvreq[p], sendreq[p]>>

\* C11: the step in which route_data is called with a keyword outside
\* router_factory ends the call and changes neither the communication state
\* of the process nor its destination_count and source_count, whatever
\* earlier calls left in them.
C11_BadKeywordTouchesNothing ==
    [][\A p \in Procs :
          (pc[p] = "call" /\ keyword[p] \notin RouterFactory /\ pc'[p] # pc[p]) =>
              /\ pc'[p] = "done"
              /\ outcome'[p] \notin {"none", "returned"}
              /\ CommStateOf(p)' = CommStateOf(p)
              /\ destination_count'[p] = destination_count[p]
              /\ source_count'[p] = source_count[p]]_vars

\* C11 witness: a call with a bad keyword has raised at a process whose
\* earlier distribute round left nonzero entries in both count vectors.
C11_Witness ==
    \E p \in Procs :
        /\ keyword[p] \notin RouterFactory /\ pc[p] = "done"
        /\ outcome[p] = UnrecognizedError
        /\ round[p] = 2
        /\ \E r \in Procs : destination_count[p][r] # 0
        /\ \E r \in Procs : source_count[p][r] # 0

-----------------------------------------------------------------------------
(* Properties of rounds that some process does not take part in, checked     *)
(* under SpecAbsent.                                                         *)

\* Some process of the communicator never invokes the call.
SomeAbsent == \E q \in Procs : pc[q] = "idle"

\* C12: in a distribute or gather round that some process never invokes, no
\* process ever leaves its call, by a return or by an error: each one that
\* invoked it stays in the first collective of the round.
C12_PeersBlockedForever ==
    SomeAbsent =>
        \A p \in Procs :
            /\ outcome[p] = "none"
            /\ pc[p] \in {"idle", "call", "alltoall", "allgather"}

\* C12 witness: a process never invokes the round, every other process
\* waits in its collective, and nothing can happen any more.
C12_Witness ==
    /\ SomeAbsent
    /\ \E p \in Procs : pc[p] \in {"alltoall", "allgather"}
    /\ \A p \in Procs : pc[p] \in {"idle", "alltoall", "allgather"}
    /\ ~ENABLED AbsentStep

-----------------------------------------------------------------------------
(* Properties of route_data's dispatch, checked under SpecDispatch.         *)

\* p calls the method of its pattern directly, with the arguments it would
\* pass to route_data.
DirectCall(p) ==
    CASE keyword[p] = "distribute" -> SendRecvEnter(p)
      [] keyword[p] = "gather" -> GatherEnter(p)
      [] keyword[p] = "scatter" -> ScatterEnter(p)

\* The pc values inside the method of a pattern, and the collectives it enters.
StepsOf(k) ==
    CASE k = "distribute" -> [pc |-> {"alltoall", "sendwait", "recvwait", "done"},
                              ops |-> {"Alltoall"}]
      [] k = "gather" -> [pc |-> {"allgather", "gatherv", "done"},
                          ops |-> {"allgather", "Gatherv"}]
      [] k = "scatter" -> [pc |-> {"scatterv", "done"}, ops |-> {"Scatterv"}]

\* C21 (dispatch equivalence): the step route_data takes with one of the
\* keywords "distribute", "gather", "scatter" is exactly the step of a direct
\* call of send_recv, gather_in_root, scatter_from_root with the same
\* arguments: the same state change and nothing besides; from there on the
\* calling process is inside that method only, enters that method's
\* collectives only, and what the method returns is what route_data returns.
C21_DispatchIsDirectCall ==
    [][\A p \in Procs :
          /\ (pc[p] = "call" /\ pc'[p] # "call" /\ keyword[p] \in RouterFactory)
                => DirectCall(p)
          /\ (keyword[p] \in RouterFactory /\ pc'[p] # pc[p])
                => /\ pc'[p] \in StepsOf(keyword[p]).pc
                   /\ \A k \in 1..Len(collq'[p]) :
                         collq'[p][k].op \in StepsOf(keyword[p]).ops]_vars

\* C21 witness: a gather reached through route_data has returned at the
\* root, having entered allgather and Gatherv.
C21_Witness ==
    \E p \in Procs :
       /\ keyword[p] = "gather" /\ outcome[p] = "returned" /\ p = root[p]
       /\ Len(collq[p]) = 2 /\ Len(ret[p][1]) > 0

\* The objects the caller passes to a call.
CallerObjects == {"destination", "data", "sendcounts"}

\* The objects a call makes itself.
FreshObjects == {"np.where", "list", "np.zeros", "np.empty", "np.array", "np.ones", "None"}

\* C30 (caller's buffers are only read): at every point of a distribute,
\* gather or scatter call the destination, data and sendcounts the caller
\* passed hold what they held when the call was made; nothing the call has
\* written, or handed to MPI to be written, is an object of the caller; and
\* every object the call returns was made by the call itself.
C30_CallerBuffersOnlyRead ==
    \A p \in Procs : keyword[p] \in RouterFactory =>
       /\ data[p] = arg_data[p]
       /\ (keyword[p] = "scatter" /\ ScatterCountsObject(p) = "sendcounts"
             /\ arg_sendcounts[p] # NoneVal) => sendcounts[p] = arg_sendcounts[p]
       /\ wrote[p] \cap CallerObjects = {}
       /\ retobj[p] \cap CallerObjects = {}
       /\ retobj[p] \subseteq FreshObjects
       /\ outcome[p] = "returned" => retobj[p] # {}

\* C30 witness: the root of a scatter that was passed a count table has
\* returned the buffer it allocated, filled by Scatterv.
C30_Witness ==
    \E p \in Procs :
       /\ keyword[p] = "scatter" /\ outcome[p] = "returned" /\ p = root[p]
       /\ arg_sendcounts[p] # NoneVal /\ Len(ret[p]) > 0
       /\ retobj[p] = {"np.ones"} /\ "np.ones" \in wrote[p]

-----------------------------------------------------------------------------
(* Properties of the steps inside one distribute call, checked under        *)
(* SpecTrace (those of a process with an empty destination list under       *)
(* SpecEmptyList).                                                          *)

\* The number of calls named op that p has made in its current call of
\* send_recv.
Count(p, op) == Cardinality({i \in 1..Len(events[p]) : events[p][i][1] = op})

\* The peers of p's calls number a to b, in the order p made them.
Peers(p, a, b) == [i \in 1..(b - a + 1) |-> events[p][a + i - 1][2]]

\* C22 (receive before send): in the calls a process makes within one
\* distribute call, no Irecv comes after an Isend; and once the process has
\* issued a send, it has posted one receive for every rank with a nonzero
\* source count, and those are all the receives of the call.
C22_ReceivesBeforeSends ==
    \A p \in Procs :
       LET e == events[p]
           nr == Count(p, "Irecv")
       IN  /\ \A i \in 1..Len(e), j \in 1..Len(e) :
                 (e[i][1] = "Isend" /\ e[j][1] = "Irecv") => j < i
           /\ Count(p, "Isend") > 0 =>
                 /\ \A j \in 1..nr : e[j][1] = "Irecv"
                 /\ Peers(p, 1, nr) = WhereNonZero(source_count[p], 0)
                 /\ Len(recvreq[p]) = nr
                 /\ \A j \in 1..nr : recvreq[p][j].source = e[j][2]

\* C22 witness: a process has posted a receive and then issued a send.
C22_Witness ==
    \E p \in Procs : Count(p, "Irecv") > 0 /\ Count(p, "Isend") > 0

\* C23 (sequential sends): the sends a process has issued in one distribute
\* call go to the entries of its destination list, one send per entry in the
\* order of the list; every send but the latest has been waited for before
\* the next was issued, so at most one send is outstanding; and when the call
\* has returned there was one send, waited for, for every entry.  (The waits
\* of the receive loop, recvidx of them, come after the last send wait.)
C23_SequentialSends ==
    \A p \in Procs :
       LET e == events[p]
           nr == Count(p, "Irecv")
           ns == Count(p, "Isend")
           nw == Count(p, "wait") - recvidx[p]
       IN  /\ ns - nw \in {0, 1}
           /\ ns <= Len(destination[p])
           /\ \A k \in 1..ns :
                 /\ e[nr + 2 * k - 1] = <<"Isend", destination[p][k]>>
                 /\ k <= nw => e[nr + 2 * k] = <<"wait", destination[p][k]>>
           /\ sendreq[p] = "pending" => ns - nw = 1
           /\ DistReturned(p) => (ns = Len(destination[p]) /\ nw = ns)

\* C23 witness: a process has returned from a call in which it issued two
\* sends.
C23_Witness ==
    \E p \in Procs :
       /\ DistReturned(p)
       /\ Count(p, "Isend") = 2
       /\ Count(p, "wait") - recvidx[p] = 2

\* C24 (count tables agree): once the count exchange of the round has
\* completed at p, source_count[r] at p is destination_count[p] at rank r,
\* for every rank r, where destination_count at r is the table r filled from
\* the arguments of its call in this round.
C24_CountTablesConsistent ==
    /\ (\E p \in Procs : Exchanged(p)) =>
          \A r \in Procs :
             destination_count[r] = FillDestinationCount(destination[r], data[r])
    /\ \A p \in Procs : Exchanged(p) =>
          \A r \in Procs : source_count[p][r] = destination_count[r][p]

\* C24 witness: past the exchange, p holds a nonzero count for a rank r
\* to which p itself sends nothing.
C24_Witness ==
    \E p \in Procs, r \in Procs :
       /\ Exchanged(p)
       /\ source_count[p][r] # 0
       /\ destination_count[p][r] = 0

\* The ranks in the sequence of ranks q.
RanksOf(q) == {q[i] : i \in 1..Len(q)}

\* The ranks of from whose first message to p is longer than the receive p
\* posts for them (of the length of their last payload for p).
Overlong(p, from) ==
    {s \in from : Len(Addressed(s, FirstEntryFor(s, p)))
                     > Len(Addressed(s, LastEntryFor(s, p)))}

\* What a process p called with an empty destination list does, from being
\* the ranks it is to receive from: it issues no send and waits for none;
\* it enters the Alltoall of the round; past the exchange it has posted one
\* receive for each rank of from and no other, and waits for them in the
\* order it posted them; when no first message is longer than its receive,
\* the call ends only by returning, when all receives have completed and
\* been waited for, with those sources and their buffers; otherwise the call
\* returns nothing: it ends only by the wait for the lowest rank with an
\* overlong message raising, the receives before it complete and waited for.
EmptyListBehaviour(p, from) ==
    LET nr == Count(p, "Irecv")
        over == Overlong(p, from)
    IN  /\ \A i \in 1..nr : events[p][i][1] = "Irecv"
        /\ Count(p, "Isend") = 0
        /\ Count(p, "wait") = recvidx[p]
        /\ \A d \in Procs : chan[p][d] = <<>>
        /\ pc[p] # "call" => (Len(collq[p]) = 1 /\ collq[p][1].op = "Alltoall")
        /\ Exchanged(p) =>
              /\ RanksOf(Peers(p, 1, nr)) = from
              /\ nr = Cardinality(from)
              /\ Len(recvreq[p]) = Cardinality(from)
              /\ Peers(p, nr + 1, nr + recvidx[p]) = Peers(p, 1, recvidx[p])
              /\ \A j \in 1..recvidx[p] : recvreq[p][j].state = "complete"
        /\ (pc[p] = "done" /\ over = {}) =>
              /\ DistReturned(p)
              /\ \A j \in 1..Len(recvreq[p]) : recvreq[p][j].state = "complete"
              /\ recvidx[p] = nr
              /\ ret[p] = <<Peers(p, 1, nr), recvbuff[p]>>
              /\ Len(ret[p][2]) = Cardinality(from)
        /\ (pc[p] = "done" /\ over # {}) =>
              /\ outcome[p] = "MPI.Exception"
              /\ ret[p] = NoneVal
              /\ recvidx[p] < nr
              /\ recvreq[p][recvidx[p] + 1].state = "truncated"
              /\ recvreq[p][recvidx[p] + 1].source \in over
              /\ \A s \in over : recvreq[p][recvidx[p] + 1].source <= s

EmptyListReturned ==
    \E p \in Procs, s \in Procs :
       /\ DistReturned(p) /\ destination[p] = <<>>
       /\ Cardinality(EntriesFor(s, p)) = 2
       /\ Len(ret[p][1]) > 0 /\ Len(ret[p][2][1]) > 0
       /\ Len(Addressed(s, FirstEntryFor(s, p))) < Len(ret[p][2][1])
       /\ recvreq[p][1].state = "complete"

-----------------------------------------------------------------------------
(* Properties of a process that sends to itself, checked under SpecDist.    *)

\* p lists its own rank among its destinations, with a non-empty payload.
SelfSender(p) ==
    /\ keyword[p] = "distribute"
    /\ \E j \in EntriesFor(p, p) : Len(Addressed(p, j)) > 0

\* C29 (as claimed): a process that lists its own rank among its
\* destinations with a non-empty payload completes the round, with or
\* without buffering in the communicator: the round cannot come to rest
\* before that process has returned, and what it returns names its own rank
\* as a source, with its own payload as the buffer.  (Stated for rounds in
\* which no destination list names a rank twice.)
C29_SelfSendCompletes ==
    NeverRepeats =>
        \A p \in Procs : SelfSender(p) =>
            /\ ~(ENABLED DistStep) => DistReturned(p)
            /\ DistReturned(p) =>
                  \E i \in 1..Len(ret[p][1]) :
                     /\ ret[p][1][i] = p
                     /\ ret[p][2][i] = Addressed(p, LastEntryFor(p, p))

-----------------------------------------------------------------------------
(* Properties of gather and scatter after distribute, checked under         *)
(* SpecAfter.                                                               *)

\* What the last distribute call of p left in destination_count: the table
\* filled from the arguments of that call, or zeros when there was none.
CountsLeft(p) ==
    IF round[p] = 1 THEN ZeroCounts
    ELSE FillDestinationCount(prev[p][1].destination, prev[p][1].data)

\* C31 (gather and scatter leave the count vectors alone): at every point
\* of a gather or scatter call, and after it, destination_count of the
\* calling process is what its last distribute call filled in and
\* source_count is what that call received from the other ranks (entry r:
\* what rank r filled in for this process); both are zero when the process
\* has made no distribute call.
C31_ScratchVectorsUntouched ==
    \A p \in Procs : keyword[p] \in {"gather", "scatter"} =>
       /\ destination_count[p] = CountsLeft(p)
       /\ \A r \in Procs :
             source_count[p][r] =
                IF round[p] = 1 THEN 0
                ELSE FillDestinationCount(ArgsOf(r, 1).destination, ArgsOf(r, 1).data)[p]

\* C31 witness: a gather made after a distribute round has returned at a
\* process whose count vectors are both nonzero.
C31_Witness ==
    \E p \in Procs :
       /\ GatherReturned(p) /\ round[p] = 2
       /\ destination_count[p] # ZeroCounts
       /\ source_count[p] # ZeroCounts

-----------------------------------------------------------------------------
(* Properties of a scatter in which every process passes data, checked      *)
(* under SpecScatter.                                                       *)

\* What the scatter of the root buffer B with the count table c (None: no
\* table) ends with at rank p when the root is rt.  Nothing here depends on
\* the data argument of a process other than the root.
ScatterOutcomeOf(B, c, rt, p) ==
    IF c = NoneVal
    THEN IF p = rt
         THEN [outcome |-> "returned",
               ret |-> Slice(B, p * (Len(B) \div NProc), Len(B) \div NProc)]
         ELSE [outcome |-> "TypeError", ret |-> NoneVal]
    ELSE [outcome |-> "returned", ret |-> Slice(B, SumBelow(c, p), c[p])]

\* C32 (processes other than the root contribute no send data): what a
\* scatter call ends with at any process, the buffer it returns included,
\* is a function of the root's buffer, the count table and the root alone,
\* so two runs that differ only in the data arguments of the other
\* processes end with the same result everywhere.
C32_NonRootDataIgnored ==
    \A p \in Procs :
        pc[p] = "done" =>
            LET r == ScatterOutcomeOf(Flatten(arg_data[root[p]].arr),
                                      arg_sendcounts[root[p]], root[p], p)
            IN  /\ outcome[p] = r.outcome
                /\ ret[p] = r.ret

\* C32 witness: a process other than the root that passed a non-empty array
\* of its own has returned a non-empty slice of the root's buffer.
C32_Witness ==
    \E p \in Procs :
        /\ ScatterReturned(p) /\ p # root[p]
        /\ Size(arg_data[p].arr) > 0
        /\ Len(ret[p]) > 0
        /\ ret[p] = Slice(Flatten(arg_data[root[p]].arr),
                           SumBelow(arg_sendcounts[p], p), Len(ret[p]))

-----------------------------------------------------------------------------
(* Properties of a distribute round with unvalidated destination ranks,     *)
(* checked under SpecAnyRank.                                               *)

\* The destination list of p holds a rank >= P.
HasBadRank(p) == FirstBadRank(destination[p]) # 0

\* C33 (unvalidated destination rank): a distribute call whose destination
\* list holds a rank >= P ends with IndexError while destination_count is
\* being filled; the process has entered no collective, posted no receive
\* and issued no send; and every process with valid destinations then never
\* gets past the count exchange.
C33_BadRankFailsBeforeExchange ==
    /\ \A p \in Procs :
          (HasBadRank(p) /\ pc[p] # "call") =>
             /\ pc[p] = "done"
             /\ outcome[p] = "IndexError"
             /\ destination_count[p] = FillUntilRaise(destination[p], data[p])
             /\ collq[p] = <<>>
             /\ events[p] = <<>>
             /\ recvreq[p] = <<>>
             /\ \A d \in Procs : chan[p][d] = <<>>
    /\ (\E p \in Procs : HasBadRank(p)) =>
          \A q \in Procs :
             ~HasBadRank(q) => /\ pc[q] \in {"call", "alltoall"}
                               /\ outcome[q] = "none"

\* C33 witness: a call with a rank >= P after a valid entry has failed with
\* that entry's count filled in, and a peer with valid destinations is in
\* the count exchange, which it cannot leave.
C33_Witness ==
    \E p \in Procs, q \in Procs :
        /\ HasBadRank(p) /\ outcome[p] = "IndexError"
        /\ destination_count[p] # ZeroCounts
        /\ ~HasBadRank(q) /\ pc[q] = "alltoall" /\ collq[q] # <<>>
        /\ ~ENABLED AlltoallExit(q)

====
